---- MODULE Spec2Model ----
(***************************************************************************)
(* A model of the vicar-rs label engines: the PVL scanner and structural   *)
(* parser (src/src/pvl.rs) and the value typing engines of pvl.rs and      *)
(* lib.rs.  A text is a sequence of one-character strings; a cursor is a   *)
(* 0-based byte index into it, as in the Rust code.                        *)
(*                                                                         *)
(* Every modelled function returns a record with a field err:              *)
(*   "ok"     the Rust function returned Ok(..) (or a plain value),        *)
(*   "panic"  the Rust function aborted (unwrap on Err, slice out of       *)
(*            range),                                                      *)
(*   any other string: the Error variant it returned.                      *)
(***************************************************************************)
EXTENDS Integers, Sequences, FiniteSets, TLC

VARIABLES
    content,     \* PvlReader.content (after filter_linefeeds)
    pos,         \* PvlReader.pos
    properties,  \* Pvl.properties
    groups,      \* Pvl.groups
    objects,     \* Pvl.objects
    status,      \* where Pvl::from_string is: "running", "Ok", "Err", "panic"
    errKind,     \* the Error variant returned when status = "Err"
    exit,        \* which exit of the top-level loop was taken
    iters,       \* number of top-level loop iterations run so far
    prevPos,     \* the cursor at the start of the last iteration
    input,       \* the text handed to from_string, as drawn: segments, end line, trailer
    frag,        \* the raw fragment handed to Value::new
    vtPvl,       \* the type pvl.rs Value::new inferred ("none" before the call)
    vtLib,       \* the type lib.rs Value::new inferred ("none" before the call)
    call,        \* the last accessor or query called, with its result
    strings,     \* VicarReader.strings: the text of the image file
    vr,          \* the VicarReader built (NoReader before, and when none is built)
    vrStatus     \* how the constructor ended: "none", "Ok", "panic" or an error kind

vars == <<content, pos, properties, groups, objects, status, errKind, exit,
          iters, prevPos, input, frag, vtPvl, vtLib, call, strings, vr, vrStatus>>

parserVars == <<content, pos, properties, groups, objects, status, errKind,
                exit, iters, prevPos, input>>

valueVars == <<frag, vtPvl, vtLib>>

vicarVars == <<strings, vr, vrStatus>>

----------------------------------------------------------------------------
(* Characters and text helpers *)

Upper == {"A","B","C","D","E","F","G","H","I","J","K","L","M",
          "N","O","P","Q","R","S","T","U","V","W","X","Y","Z"}

Lower == {"a","b","c","d","e","f","g","h","i","j","k","l","m",
          "n","o","p","q","r","s","t","u","v","w","x","y","z"}

Digits == {"0","1","2","3","4","5","6","7","8","9"}

Letters == Upper \cup Lower

NL == "\n"

CR == "\r"

DQ == "\""

SQ == "'"

\* str::trim strips Unicode white space; these are the ones a text here can hold
WhiteSpace == {" ", NL, CR, "\t"}

Rep(ch, n) == [i \in 1..n |-> ch]

\* s[a..b) with 0-based byte indices, as a Rust slice
Slice(s, a, b) == [i \in 1..(b - a) |-> s[a + i]]

AllIn(s, a, b, set) == \A i \in (a + 1)..b : s[i] \in set

Least(S) == CHOOSE i \in S : \A j \in S : i <= j

Greatest(S) == CHOOSE i \in S : \A j \in S : i >= j

\* 0-based index of the first character of s at or after from that is in set,
\* Len(s) when there is none: where a character-by-character scan stops
FirstIn(s, from, set) ==
    LET S == {i \in from..(Len(s) - 1) : s[i + 1] \in set}
    IN  IF S = {} THEN Len(s) ELSE Least(S)

\* the same for the first character that is not in set
FirstNotIn(s, from, set) ==
    LET S == {i \in from..(Len(s) - 1) : s[i + 1] \notin set}
    IN  IF S = {} THEN Len(s) ELSE Least(S)

TrimStart(s) == SubSeq(s, FirstNotIn(s, 0, WhiteSpace) + 1, Len(s))

TrimEnd(s) ==
    LET S == {i \in 1..Len(s) : s[i] \notin WhiteSpace}
    IN  IF S = {} THEN <<>> ELSE SubSeq(s, 1, Greatest(S))

Trim(s) == TrimEnd(TrimStart(s))

StartsWith(s, p) == Len(s) >= Len(p) /\ SubSeq(s, 1, Len(p)) = p

----------------------------------------------------------------------------
(* Value typing engine: the regular expressions, by what they match *)

ValueTypes == {"Undetermined", "Array", "String", "Float", "Integer", "Bool",
               "Flag", "BitMask"}

TRUE_TEXT == <<"T","R","U","E">>

FALSE_TEXT == <<"F","A","L","S","E">>

\* ^<q>(TRUE|FALSE)<q>$ where each <q> is one character of quotes
BoolRegex(s, quotes) ==
    /\ Len(s) >= 2
    /\ s[1] \in quotes
    /\ s[Len(s)] \in quotes
    /\ Slice(s, 1, Len(s) - 1) \in {TRUE_TEXT, FALSE_TEXT}

\* ^<open>.*<close>$ : '.' matches every character but a line feed
WrappedRegex(s, open, close) ==
    /\ Len(s) >= 2
    /\ s[1] \in open
    /\ s[Len(s)] \in close
    /\ \A i \in 2..(Len(s) - 1) : s[i] # NL

\* length of the longest prefix of s[from..] (0-based from) made of set
Run(s, from, set) ==
    IF from >= Len(s) THEN 0 ELSE FirstNotIn(s, from, set) - from

\* ^-*[0-9]+\.[0-9][ ]*   (not anchored at the end)
FLOAT_DETERMINATE(s) ==
    LET a == Run(s, 0, {"-"})
        d == Run(s, a, Digits)
    IN  /\ d >= 1
        /\ a + d + 1 < Len(s)
        /\ s[a + d + 1] = "."
        /\ s[a + d + 2] \in Digits

\* ^[+-]*[0-9]+[^#a-zA-Z]*[ ]*   (not anchored at the end)
INTEGER_DETERMINATE(s) ==
    LET a == Run(s, 0, {"+", "-"})
    IN  Run(s, a, Digits) >= 1

\* ^[a-zA-Z_]+[a-zA-Z0-9]+$
FLAG_DETERMINATE(s) ==
    \E k \in 1..(Len(s) - 1) :
        /\ AllIn(s, 0, k, Letters \cup {"_"})
        /\ AllIn(s, k, Len(s), Letters \cup Digits)

\* ^[1-8]*#+[0-1]+#+$
BITMASK_DETERMINATE(s) ==
    LET r == Run(s, 0, {"1","2","3","4","5","6","7","8"})
        h == Run(s, r, {"#"})
        b == Run(s, r + h, {"0", "1"})
        t == Run(s, r + h + b, {"#"})
    IN  h >= 1 /\ b >= 1 /\ t >= 1 /\ r + h + b + t = Len(s)

PvlQuotes == {DQ}

LibQuotes == {SQ, DQ}

\* the ordered decision list shared by both determine_type functions
DetermineWith(s, quotes) ==
    IF BoolRegex(s, quotes) THEN "Bool"
    ELSE IF WrappedRegex(s, quotes, quotes) THEN "String"
    ELSE IF WrappedRegex(s, {"("}, {")"}) THEN "Array"
    ELSE IF FLOAT_DETERMINATE(s) THEN "Float"
    ELSE IF BITMASK_DETERMINATE(s) THEN "BitMask"
    ELSE IF INTEGER_DETERMINATE(s) THEN "Integer"
    ELSE IF FLAG_DETERMINATE(s) THEN "Flag"
    ELSE "Undetermined"

\* the same list with the BitMask and Integer rules in the wrong order
DetermineIntegerFirst(s, quotes) ==
    IF BoolRegex(s, quotes) THEN "Bool"
    ELSE IF WrappedRegex(s, quotes, quotes) THEN "String"
    ELSE IF WrappedRegex(s, {"("}, {")"}) THEN "Array"
    ELSE IF FLOAT_DETERMINATE(s) THEN "Float"
    ELSE IF INTEGER_DETERMINATE(s) THEN "Integer"
    ELSE IF BITMASK_DETERMINATE(s) THEN "BitMask"
    ELSE IF FLAG_DETERMINATE(s) THEN "Flag"
    ELSE "Undetermined"

\* pvl.rs determine_type with the BitMask and Integer rules swapped
pvl_determine_type_swapped(s) == DetermineIntegerFirst(s, PvlQuotes)

\* pvl.rs Value::determine_type
pvl_determine_type(s) == DetermineWith(s, PvlQuotes)

\* lib.rs Value::determine_type
lib_determine_type(s) == DetermineWith(s, LibQuotes)

\* pvl.rs Value::new
NewValue(s) == [raw |-> s, type |-> pvl_determine_type(s)]

\* pvl.rs Value::parse_flag (impl_parse_pvl_fn with String: the parse never fails)
parse_flag(v) ==
    IF v.type # "Undetermined" /\ v.type # "Flag"
    THEN [err |-> "InvalidType", val |-> <<>>]
    ELSE [err |-> "ok", val |-> v.raw]

----------------------------------------------------------------------------
(* Value accessors: str::parse of the native types and the accessor macros *)

LowerSeq == <<"a","b","c","d","e","f","g","h","i","j","k","l","m",
              "n","o","p","q","r","s","t","u","v","w","x","y","z">>

UpperSeq == <<"A","B","C","D","E","F","G","H","I","J","K","L","M",
              "N","O","P","Q","R","S","T","U","V","W","X","Y","Z">>

LetterIndex(ch, alphabet) == CHOOSE i \in 1..Len(alphabet) : alphabet[i] = ch

\* str::to_uppercase / to_lowercase on the characters a text here can hold
to_uppercase(s) ==
    [i \in 1..Len(s) |->
        IF s[i] \in Lower THEN UpperSeq[LetterIndex(s[i], LowerSeq)] ELSE s[i]]

to_lowercase(s) ==
    [i \in 1..Len(s) |->
        IF s[i] \in Upper THEN LowerSeq[LetterIndex(s[i], UpperSeq)] ELSE s[i]]

DigitSeq == <<"0","1","2","3","4","5","6","7","8","9">>

DigitValue(ch) == LetterIndex(ch, DigitSeq) - 1

\* the number a string of digits denotes (the texts here have fewer than 10
\* digits, so every value is below 2^31)
RECURSIVE DecimalValue(_)
DecimalValue(s) ==
    IF s = <<>> THEN 0
    ELSE 10 * DecimalValue(SubSeq(s, 1, Len(s) - 1)) + DigitValue(s[Len(s)])

NoVal == <<>>

ParseError == [err |-> "ValueTypeParseError", val |-> NoVal]

\* whether v fits the integer type; a value below 2^31 fits every type of 32
\* bits and more
Fits(v, signed, bits) ==
    \/ bits >= 32
    \/ IF signed THEN -(2 ^ (bits - 1)) <= v /\ v <= 2 ^ (bits - 1) - 1
       ELSE v <= 2 ^ bits - 1

\* <integer>::from_str: one optional sign (- for the signed types only), at
\* least one digit and nothing else; the value must fit the type
IntFromStr(s, signed, bits) ==
    LET neg  == s # <<>> /\ s[1] = "-" /\ signed
        body == IF s # <<>> /\ (s[1] = "+" \/ neg) THEN Tail(s) ELSE s
        v    == IF neg THEN -DecimalValue(body) ELSE DecimalValue(body)
    IN  IF body = <<>> \/ ~AllIn(body, 0, Len(body), Digits) THEN ParseError
        ELSE IF ~Fits(v, signed, bits) THEN ParseError
        ELSE [err |-> "ok", val |-> v]

INF_TEXTS == {<<"i","n","f">>, <<"i","n","f","i","n","i","t","y">>, <<"n","a","n">>}

\* the exponent part of a float: empty, or e, an optional sign and digits
IsExponent(r) ==
    \/ r = <<>>
    \/ /\ r[1] \in {"e", "E"}
       /\ LET d == IF Len(r) >= 2 /\ r[2] \in {"+", "-"}
                   THEN SubSeq(r, 3, Len(r)) ELSE Tail(r)
          IN  d # <<>> /\ AllIn(d, 0, Len(d), Digits)

\* f32::from_str / f64::from_str: an optional sign, then inf, infinity, nan or
\* a decimal number with at least one digit and an optional exponent; the
\* number is kept as its text
FloatFromStr(s) ==
    LET b   == IF s # <<>> /\ s[1] \in {"+", "-"} THEN Tail(s) ELSE s
        i   == Run(b, 0, Digits)
        dot == i < Len(b) /\ b[i + 1] = "."
        f   == IF dot THEN Run(b, i + 1, Digits) ELSE 0
        m   == i + (IF dot THEN 1 + f ELSE 0)
    IN  IF to_lowercase(b) \in INF_TEXTS THEN [err |-> "ok", val |-> s]
        ELSE IF i + f >= 1 /\ IsExponent(SubSeq(b, m + 1, Len(b)))
             THEN [err |-> "ok", val |-> s]
        ELSE ParseError

\* bool::from_str
BoolFromStr(s) ==
    IF s = <<"t","r","u","e">> THEN [err |-> "ok", val |-> TRUE]
    ELSE IF s = <<"f","a","l","s","e">> THEN [err |-> "ok", val |-> FALSE]
    ELSE ParseError

FloatAccessors == {"parse_f32", "parse_f64"}

UnsignedAccessors == {"parse_u8", "parse_u16", "parse_u32", "parse_u64", "parse_usize"}

SignedAccessors == {"parse_i8", "parse_i16", "parse_i32", "parse_i64"}

\* the accessors the macro generates
MacroAccessors ==
    FloatAccessors \cup UnsignedAccessors \cup SignedAccessors
        \cup {"parse_bool", "parse_flag"}

\* the $value_type argument of each macro invocation
MacroValueType(fn) ==
    CASE fn \in FloatAccessors -> "Float"
      [] fn \in UnsignedAccessors \cup SignedAccessors -> "Integer"
      [] fn = "parse_bool" -> "Bool"
      [] fn = "parse_flag" -> "Flag"

\* the width of the $type argument of each integer accessor
TypeBits(fn) ==
    CASE fn \in {"parse_u8", "parse_i8"} -> 8
      [] fn \in {"parse_u16", "parse_i16"} -> 16
      [] fn \in {"parse_u32", "parse_i32"} -> 32
      [] OTHER -> 64

\* self.value_raw.parse::<$type>() with the macro's mapping of the error
FromStr(fn, s) ==
    CASE fn \in FloatAccessors    -> FloatFromStr(s)
      [] fn \in UnsignedAccessors -> IntFromStr(s, FALSE, TypeBits(fn))
      [] fn \in SignedAccessors   -> IntFromStr(s, TRUE, TypeBits(fn))
      [] fn = "parse_bool"        -> BoolFromStr(s)
      [] fn = "parse_flag"        -> [err |-> "ok", val |-> s]

InvalidType == [err |-> "InvalidType", val |-> NoVal]

\* an accessor of the macro with its type check left out
impl_parse_pvl_fn_unchecked(fn, v) == FromStr(fn, v.raw)

\* pvl.rs impl_parse_pvl_fn!: the accessor fn applied to the Value v
impl_parse_pvl_fn(fn, v) ==
    IF v.type # "Undetermined" /\ v.type # MacroValueType(fn) THEN InvalidType
    ELSE FromStr(fn, v.raw)

\* lib.rs impl_parse_fn!: the accessor fn applied to the Value v
impl_parse_fn(fn, v) ==
    IF v.type # "Undetermined" /\ v.type # MacroValueType(fn) THEN InvalidType
    ELSE FromStr(fn, v.raw)

NotDoubleQuote(ch) == ch # DQ

NotQuote(ch) == ch \notin {DQ, SQ}

\* pvl.rs Value::parse_string
pvl_parse_string(v) ==
    IF v.type # "Undetermined" /\ v.type # "String" THEN InvalidType
    ELSE [err |-> "ok", val |-> SelectSeq(v.raw, NotDoubleQuote)]

\* lib.rs Value::parse_string
lib_parse_string(v) ==
    IF v.type # "Undetermined" /\ v.type # "String" THEN InvalidType
    ELSE [err |-> "ok", val |-> SelectSeq(v.raw, NotQuote)]

\* str::split(','): the pieces between the commas, empty pieces included
RECURSIVE Split(_, _)
Split(s, sep) ==
    IF FirstIn(s, 0, {sep}) >= Len(s) THEN <<s>>
    ELSE <<SubSeq(s, 1, FirstIn(s, 0, {sep}))>>
             \o Split(SubSeq(s, FirstIn(s, 0, {sep}) + 2, Len(s)), sep)

\* lib.rs Value::new
LibNewValue(s) == [raw |-> s, type |-> lib_determine_type(s)]

\* .map(Value::new).collect() of the engine
CollectValues(pieces, eng) ==
    [i \in 1..Len(pieces) |->
        IF eng = "pvl" THEN NewValue(pieces[i]) ELSE LibNewValue(pieces[i])]

\* parse_array that splits the whole raw text, parentheses included
parse_array_unsliced(v, eng) ==
    IF v.type # "Array" THEN InvalidType
    ELSE [err |-> "ok", val |-> CollectValues(Split(v.raw, ","), eng)]

\* Value::parse_array of pvl.rs and of lib.rs (the same text; eng selects the
\* Value::new the pieces go through)
parse_array(v, eng) ==
    IF v.type # "Array" THEN InvalidType
    ELSE [err |-> "ok",
          val |-> CollectValues(Split(SubSeq(v.raw, 2, Len(v.raw) - 1), ","), eng)]

----------------------------------------------------------------------------
(* lib.rs enumerations of the VICAR label *)

EnumOk(variant) == [err |-> "ok", val |-> variant]

UnexpectedEnum(s) == [err |-> "UnexpectedEnum", val |-> s]

\* PixelFormat::from_string comparing the text as it is written
PixelFormat_from_string_exact(s) ==
    CASE s = <<"B","Y","T","E">> -> EnumOk("Byte")
      [] s = <<"H","A","L","F">> -> EnumOk("Half")
      [] s = <<"W","O","R","D">> -> EnumOk("Half")
      [] s = <<"F","U","L","L">> -> EnumOk("Full")
      [] s = <<"L","O","N","G">> -> EnumOk("Full")
      [] s = <<"R","E","A","L">> -> EnumOk("Real")
      [] s = <<"D","O","U","B">> -> EnumOk("Doub")
      [] s = <<"C","O","M","P">> -> EnumOk("Comp")
      [] s = <<"C","O","M","P","L","E","X">> -> EnumOk("Comp")
      [] OTHER -> UnexpectedEnum(s)

\* lib.rs PixelFormat::from_string
PixelFormat_from_string(s) ==
    CASE to_uppercase(s) = <<"B","Y","T","E">> -> EnumOk("Byte")
      [] to_uppercase(s) = <<"H","A","L","F">> -> EnumOk("Half")
      [] to_uppercase(s) = <<"W","O","R","D">> -> EnumOk("Half")
      [] to_uppercase(s) = <<"F","U","L","L">> -> EnumOk("Full")
      [] to_uppercase(s) = <<"L","O","N","G">> -> EnumOk("Full")
      [] to_uppercase(s) = <<"R","E","A","L">> -> EnumOk("Real")
      [] to_uppercase(s) = <<"D","O","U","B">> -> EnumOk("Doub")
      [] to_uppercase(s) = <<"C","O","M","P">> -> EnumOk("Comp")
      [] to_uppercase(s) = <<"C","O","M","P","L","E","X">> -> EnumOk("Comp")
      [] OTHER -> UnexpectedEnum(s)

\* lib.rs DataType::from_string
DataType_from_string(s) ==
    CASE to_uppercase(s) = <<"I","M","A","G","E">> -> EnumOk("Image")
      [] to_uppercase(s) = <<"P","A","R","M","S">> -> EnumOk("Parms")
      [] to_uppercase(s) = <<"P","A","R","M">> -> EnumOk("Parm")
      [] to_uppercase(s) = <<"P","A","R","A","M">> -> EnumOk("Param")
      [] to_uppercase(s) = <<"G","R","A","P","H","1">> -> EnumOk("Graph1")
      [] to_uppercase(s) = <<"G","R","A","P","H","2">> -> EnumOk("Graph2")
      [] to_uppercase(s) = <<"G","R","A","P","H","3">> -> EnumOk("Graph3")
      [] to_uppercase(s) = <<"T","A","B","U","L","A","R">> -> EnumOk("Tabular")
      [] OTHER -> UnexpectedEnum(s)

\* lib.rs DataOrganization::from_string
DataOrganization_from_string(s) ==
    CASE to_uppercase(s) = <<"B","S","Q">> -> EnumOk("Bsq")
      [] to_uppercase(s) = <<"B","I","L">> -> EnumOk("Bil")
      [] to_uppercase(s) = <<"B","I","P">> -> EnumOk("Bip")
      [] OTHER -> UnexpectedEnum(s)

\* PixelFormat::bytes_per_sample
bytes_per_sample(format) ==
    CASE format = "Byte" -> 1
      [] format \in {"Half", "Word"} -> 2
      [] format \in {"Full", "Long"} -> 4
      [] format \in {"Real", "Doub"} -> 2
      [] format \in {"Comp", "Complex"} -> 4

----------------------------------------------------------------------------
(* lib.rs VICAR label resolver and pixel addressing: VicarReader *)

\* no accessor or query has been called yet
NoCall == [fn |-> "none"]

\* no VicarReader has been built
NoReader == [built |-> FALSE]

LBLSIZE_KEY == <<"L","B","L","S","I","Z","E">>

RECSIZE_KEY == <<"R","E","C","S","I","Z","E">>

DIM_KEY == <<"D","I","M">>

N1_KEY == <<"N","1">>

N2_KEY == <<"N","2">>

N3_KEY == <<"N","3">>

NLB_KEY == <<"N","L","B">>

NBB_KEY == <<"N","B","B">>

TYPE_KEY == <<"T","Y","P","E">>

FORMAT_KEY == <<"F","O","R","M","A","T">>

ORG_KEY == <<"O","R","G">>

IMAGE_TOKEN == <<"I","M","A","G","E">>

\* the tokens VicarReader::new asks for, in the order it asks
RequiredKeys ==
    <<LBLSIZE_KEY, RECSIZE_KEY, DIM_KEY, N1_KEY, N2_KEY, N3_KEY, NLB_KEY, NBB_KEY,
      TYPE_KEY, FORMAT_KEY, ORG_KEY>>

ScanFail(e) == [err |-> e, idx |-> 0]

\* positions i of 0..(len - key_eq.len()) where strings[i..i + key_eq.len()] == key_eq
ScanHits(strs, key_eq) ==
    {i \in 0..(Len(strs) - Len(key_eq) - 1) :
        strs[i + 1] = key_eq[1] /\ SubSeq(strs, i + 1, i + Len(key_eq)) = key_eq}

\* VicarReader::_scan_for_property; strings.len() - key_eq.len() underflows on
\* a text shorter than the key and the run panics
_scan_for_property(strs, key) ==
    IF Len(strs) < Len(key) + 1 THEN ScanFail("panic")
    ELSE IF ScanHits(strs, key \o <<"=">>) = {} THEN ScanFail("Eof")
    ELSE [err |-> "ok", idx |-> Least(ScanHits(strs, key \o <<"=">>))]

\* VicarReader::_has_property: is_ok() of the scan, which aborts when the scan does
_has_property(strs, key) ==
    IF _scan_for_property(strs, key).err = "panic" THEN [err |-> "panic", val |-> FALSE]
    ELSE [err |-> "ok", val |-> _scan_for_property(strs, key).err = "ok"]

\* end_index of _extract_property_raw: the first space after index, index
\* itself when there is none
EndIndex(strs, index) ==
    IF FirstIn(strs, index + 1, {" "}) >= Len(strs) THEN index
    ELSE FirstIn(strs, index + 1, {" "})

ExtractFrom(strs, sc) ==
    IF sc.err # "ok" THEN [err |-> sc.err, raw |-> <<>>]
    ELSE [err |-> "ok", raw |-> Slice(strs, sc.idx, EndIndex(strs, sc.idx))]

\* VicarReader::_extract_property_raw
_extract_property_raw(strs, key) == ExtractFrom(strs, _scan_for_property(strs, key))

PropFail(e) == [err |-> e, key |-> <<>>, value |-> NoVal]

PropertyFromParts(parts) ==
    IF Len(parts) # 2 THEN PropFail("Syntax")
    ELSE [err |-> "ok", key |-> parts[1], value |-> LibNewValue(parts[2])]

PropertyFrom(x) ==
    IF x.err # "ok" THEN PropFail(x.err) ELSE PropertyFromParts(Split(x.raw, "="))

\* VicarReader::_get_property
_get_property(strs, key) == PropertyFrom(_extract_property_raw(strs, key))

UsizeOf(prop) ==
    IF prop.err # "ok" THEN [err |-> prop.err, val |-> NoVal]
    ELSE impl_parse_fn("parse_usize", prop.value)

\* _get_property(strings, key)?.value.parse_usize()?
UsizeProperty(strs, key) == UsizeOf(_get_property(strs, key))

EnumOfText(text, enum) ==
    IF text.err # "ok" THEN text
    ELSE CASE enum = "PixelFormat" -> PixelFormat_from_string(text.val)
           [] enum = "DataType" -> DataType_from_string(text.val)
           [] enum = "DataOrganization" -> DataOrganization_from_string(text.val)

EnumOf(prop, enum) ==
    IF prop.err # "ok" THEN [err |-> prop.err, val |-> NoVal]
    ELSE EnumOfText(lib_parse_string(prop.value), enum)

\* Enum::from_string(&_get_property(strings, key)?.value.parse_string()?)?
EnumProperty(strs, key, enum) == EnumOf(_get_property(strs, key), enum)

\* to_lines_samples_bands with the Bil and Bip rows exchanged
to_lines_samples_bands_exchanged(n1, n2, n3, org) ==
    CASE org = "Bsq" -> <<n2, n1, n3>>
      [] org = "Bil" -> <<n3, n2, n1>>
      [] org = "Bip" -> <<n3, n1, n2>>

\* VicarReader::to_lines_samples_bands: (lines, samples, bands)
to_lines_samples_bands(n1, n2, n3, org) ==
    CASE org = "Bsq" -> <<n2, n1, n3>>
      [] org = "Bil" -> <<n3, n1, n2>>
      [] org = "Bip" -> <<n3, n2, n1>>

\* data_start without the position of the label
DataStartFromZero(label_start, lblsize, nlb, recsize, nbb) ==
    (nlb * recsize + lblsize) + nbb

\* data_start: label_start + binary_header_stop + nbb
DataStart(label_start, lblsize, nlb, recsize, nbb) ==
    label_start + (nlb * recsize + lblsize) + nbb

\* the Ok(VicarReader { .. }) of new from the values read, lsb being the
\* (lines, samples, bands) of to_lines_samples_bands
ReaderOf(strs, st, lsb) ==
    [built |-> TRUE,
     data_start |-> DataStart(st[1].idx, st[2].val, st[8].val, st[3].val, st[9].val),
     label_size |-> st[2].val,
     dimensions |-> st[4].val,
     recsize |-> st[3].val,
     lines |-> lsb[1],
     samples |-> lsb[2],
     bands |-> lsb[3],
     org |-> st[12].val,
     format |-> st[11].val,
     data_type |-> st[10].val,
     strings |-> strs,
     binary_bytes_before_record |-> st[9].val,
     binary_bytes_header |-> st[8].val]

\* the first ? of new that fails decides the result
NewFrom(strs, st) ==
    IF {i \in 1..Len(st) : st[i].err # "ok"} # {}
    THEN [err |-> st[Least({i \in 1..Len(st) : st[i].err # "ok"})].err, reader |-> NoReader]
    ELSE [err |-> "ok",
          reader |-> ReaderOf(strs, st,
                        to_lines_samples_bands(st[5].val, st[6].val, st[7].val, st[12].val))]

\* VicarReader::new on the text of the file
new(strs) ==
    NewFrom(strs,
        << _scan_for_property(strs, LBLSIZE_KEY),
           UsizeProperty(strs, LBLSIZE_KEY),
           UsizeProperty(strs, RECSIZE_KEY),
           UsizeProperty(strs, DIM_KEY),
           UsizeProperty(strs, N1_KEY),
           UsizeProperty(strs, N2_KEY),
           UsizeProperty(strs, N3_KEY),
           UsizeProperty(strs, NLB_KEY),
           UsizeProperty(strs, NBB_KEY),
           EnumProperty(strs, TYPE_KEY, "DataType"),
           EnumProperty(strs, FORMAT_KEY, "PixelFormat"),
           EnumProperty(strs, ORG_KEY, "DataOrganization") >>)

\* get_pixel_index without the bytes before each record
get_pixel_index_without_prefix(r, line, sample, band) ==
    r.lines * r.samples * bytes_per_sample(r.format) * band
        + line * r.samples * bytes_per_sample(r.format)
        + sample * bytes_per_sample(r.format)

\* VicarReader::get_pixel_index
get_pixel_index(r, line, sample, band) ==
    (r.lines * r.samples * bytes_per_sample(r.format) * band
        + line * r.binary_bytes_before_record)
        + line * r.samples * bytes_per_sample(r.format)
        + sample * bytes_per_sample(r.format)

\* the number of bytes the read_* of get_pixel_value takes for a format
ReadWidth(format) ==
    CASE format = "Byte" -> 1
      [] format \in {"Half", "Word"} -> 2
      [] format \in {"Full", "Long"} -> 4
      [] format = "Real" -> 4
      [] format = "Doub" -> 8

\* BinFileReader read of n bytes of the file at start; the number read is kept
\* as its bytes, a read the file cannot serve comes back as General
ReadAt(file, start, n) ==
    IF start + n > Len(file) THEN [err |-> "General", start |-> start, val |-> NoVal]
    ELSE [err |-> "ok", start |-> start, val |-> Slice(file, start, start + n)]

PixelAt(r, start) ==
    IF r.format \in {"Comp", "Complex"} THEN [err |-> "panic", start |-> start, val |-> NoVal]
    ELSE ReadAt(r.strings, start, ReadWidth(r.format))

\* VicarReader::get_pixel_value
get_pixel_value(r, line, sample, band) ==
    PixelAt(r, r.data_start + get_pixel_index(r, line, sample, band))

----------------------------------------------------------------------------
(* PVL scanner: PvlReader over (c, p) = (content, pos) *)

LINE_CONTINUATION_PREFIX_LEN == 37

LINE_CONTINUATION_PREFIX == Rep(" ", LINE_CONTINUATION_PREFIX_LEN)

BlankScanLimit == 100

GROUP_TEXT == <<"G","R","O","U","P">>

OBJECT_TEXT == <<"O","B","J","E","C","T">>

END_TEXT == <<"E","N","D">>

END_GROUP_TEXT == <<"E","N","D","_","G","R","O","U","P">>

END_OBJECT_TEXT == <<"E","N","D","_","O","B","J","E","C","T">>

Ret(v) == [err |-> "ok", val |-> v]

Fail(e) == [err |-> e, val |-> FALSE]

\* Result::unwrap: an Err becomes an abort
Unwrap(r) == IF r.err = "ok" THEN r ELSE [r EXCEPT !.err = "panic"]

NotCarriageReturn(ch) == ch # CR

filter_linefeeds(s) == SelectSeq(s, NotCarriageReturn)

is_eof(c, p) == p >= Len(c)

has_n_remaining(c, p, n) == p + n < Len(c)

\* jump: Err(Eof) at the end of the text, else moves at most to the end
jump(c, p, n) ==
    IF is_eof(c, p) THEN [err |-> "Eof", pos |-> p]
    ELSE [err |-> "ok",
          pos |-> p + (IF p + n >= Len(c) THEN Len(c) - p ELSE n)]

is_at_line_start(c, p) ==
    IF p > 0 /\ p - 1 > Len(c) THEN Fail("Eof")
    ELSE IF p = 0 THEN Ret(TRUE)
    ELSE IF p - 1 >= Len(c) THEN Fail("panic")      \* char_at(pos - 1).unwrap()
    ELSE Ret(c[p] \in {CR, NL})

is_at_multiline_comment_start(c, p) ==
    IF is_eof(c, p) \/ p + 1 >= Len(c) THEN FALSE
    ELSE c[p + 1] = "/" /\ c[p + 2] = "*"

is_at_multiline_comment_end(c, p) ==
    IF p + 1 >= Len(c) THEN FALSE
    ELSE c[p + 1] = "*" /\ c[p + 2] = "/"

\* the while loop of skip_multiline_comment, which moves one character at a
\* time up to the first `*/`; n counts the characters pushed
SkipCommentLoop(c, p, n) ==
    LET S == {i \in p..(Len(c) - 2) : is_at_multiline_comment_end(c, i)}
    IN  IF S = {} THEN [err |-> "panic", pos |-> Len(c), n |-> n + Len(c) - 1 - p]
        ELSE [err |-> "ok", pos |-> Least(S), n |-> n + Least(S) - p]

skip_multiline_comment(c, p) ==
    LET l == SkipCommentLoop(c, p, 0)
        j == jump(c, l.pos, 2)
    IN  IF ~is_at_multiline_comment_start(c, p)
        THEN [err |-> "CommentIsntComment", pos |-> p, val |-> <<>>]
        ELSE IF l.err # "ok" THEN [err |-> "panic", pos |-> l.pos, val |-> <<>>]
        ELSE IF j.err # "ok" THEN [err |-> "panic", pos |-> l.pos, val |-> <<>>]
        \* comment_text[1..(len - 2)] aborts unless 1 <= len - 2
        ELSE IF l.n < 3 THEN [err |-> "panic", pos |-> j.pos, val |-> <<>>]
        ELSE [err |-> "ok", pos |-> j.pos, val |-> Slice(c, p + 2, p + l.n - 1)]

is_at_group(c, p) ==
    LET ls == Unwrap(is_at_line_start(c, p))
    IN  IF ~has_n_remaining(c, p, 5) THEN Ret(FALSE)
        ELSE IF ls.err # "ok" THEN Fail("panic")
        ELSE IF ~ls.val THEN Fail("Programming")
        ELSE Ret(Slice(c, p, p + 5) = GROUP_TEXT)

is_at_object(c, p) ==
    IF ~has_n_remaining(c, p, 6) THEN Ret(FALSE)
    ELSE Ret(Slice(c, p, p + 6) = OBJECT_TEXT)

is_at_end(c, p) ==
    IF has_n_remaining(c, p, 3) THEN Slice(c, p, p + 3) = END_TEXT ELSE FALSE

is_at_value_line_continuation(c, p) ==
    LET ls == Unwrap(is_at_line_start(c, p))
    IN  IF ls.err # "ok" THEN Fail("panic")
        ELSE IF ~ls.val THEN Ret(FALSE)
        ELSE IF p + LINE_CONTINUATION_PREFIX_LEN >= Len(c) THEN Fail("Eof")
        ELSE Ret(Slice(c, p, p + LINE_CONTINUATION_PREFIX_LEN)
                    = LINE_CONTINUATION_PREFIX)

\* index (0-based offset from p) at which the scan of is_blank_line stops
BlankScanStop(c, p, i) ==
    LET S == {j \in i..(BlankScanLimit - 1) : p + j >= Len(c) \/ c[p + j + 1] = NL}
    IN  IF S = {} THEN BlankScanLimit ELSE Least(S)

is_blank_line(c, p) ==
    LET ls == is_at_line_start(c, p)
    IN  IF ls.err # "ok" THEN Fail(ls.err)
        ELSE IF ~ls.val THEN Fail("Programming")
        ELSE IF is_eof(c, p) THEN Fail("Eof")
        ELSE Ret(\A j \in 0..(BlankScanStop(c, p, 0) - 1) : c[p + j + 1] = " ")

Tag(kind) == [kind |-> kind, name |-> <<>>]

\* the classification at the end of read_symbol
ClassifySymbol(t) ==
    IF t = <<>> THEN Tag("BlankLine")
    ELSE IF t[1] = "^" THEN [kind |-> "Pointer", name |-> t]
    ELSE IF t = GROUP_TEXT THEN Tag("Group")
    ELSE IF t = OBJECT_TEXT THEN Tag("Object")
    ELSE IF t = END_GROUP_TEXT THEN Tag("GroupEnd")
    ELSE IF t = END_OBJECT_TEXT THEN Tag("ObjectEnd")
    ELSE IF t = END_TEXT THEN Tag("End")
    ELSE [kind |-> "Key", name |-> t]

\* the while loop of read_symbol: it pushes up to the first of \n, \r and =
SymbolLoop(c, p, acc) ==
    LET q == FirstIn(c, p, {NL, CR, "="})
    IN  IF is_eof(c, p) THEN [err |-> "ok", pos |-> p, val |-> acc]
        \* self.next_char().unwrap() on the last character of the text
        ELSE IF q >= Len(c)
             THEN [err |-> "panic", pos |-> Len(c), val |-> acc \o Slice(c, p, q)]
        ELSE [err |-> "ok", pos |-> q, val |-> acc \o Slice(c, p, q)]

SymFail(e, p) == [err |-> e, pos |-> p, val |-> Tag("BlankLine")]

read_symbol(c, p) ==
    LET vc == Unwrap(is_at_value_line_continuation(c, p))
        ls == Unwrap(is_at_line_start(c, p))
        l  == SymbolLoop(c, p, <<>>)
    IN  IF vc.err # "ok" THEN SymFail("panic", p)
        ELSE IF vc.val THEN SymFail("Syntax", p)
        ELSE IF ls.err # "ok" THEN SymFail("panic", p)
        ELSE IF ~ls.val THEN SymFail("Programming", p)
        ELSE [err |-> l.err, pos |-> l.pos, val |-> ClassifySymbol(Trim(l.val))]

\* the while loop of read_remaining_line: it pushes up to the first of \n, \r
\* and =; at an = it jumps two characters and pushes the one it lands on
RECURSIVE RemainingLoop(_, _, _)
RemainingLoop(c, p, acc) ==
    LET q    == FirstIn(c, p, {NL, CR, "="})
        acc1 == acc \o Slice(c, p, q)
        q2   == jump(c, q, 2).pos
    IN  IF is_eof(c, p) THEN [err |-> "ok", pos |-> p, val |-> acc]
        \* self.next_char()? after the last character of the text
        ELSE IF q >= Len(c) THEN [err |-> "Eof", pos |-> Len(c), val |-> acc1]
        ELSE IF c[q + 1] # "=" THEN [err |-> "ok", pos |-> q, val |-> acc1]
        \* self.current_char().unwrap() after the jump
        ELSE IF q2 >= Len(c) THEN [err |-> "panic", pos |-> q2, val |-> acc1]
        ELSE IF c[q2 + 1] \in {NL, CR} THEN [err |-> "ok", pos |-> q2, val |-> acc1]
        ELSE IF q2 + 1 >= Len(c)
             THEN [err |-> "Eof", pos |-> q2 + 1, val |-> Append(acc1, c[q2 + 1])]
        ELSE RemainingLoop(c, q2 + 1, Append(acc1, c[q2 + 1]))

read_remaining_line(c, p) ==
    LET l == RemainingLoop(c, p, <<>>)
    IN  [err |-> l.err, pos |-> l.pos, val |-> Trim(l.val)]

\* the while loop of jump_to_next_line: it moves over a run of \n
jump_to_next_line(c, p) ==
    LET q == FirstNotIn(c, p, {NL})
    IN  IF p > Len(c) THEN [err |-> "ok", pos |-> p]
        ELSE IF p >= Len(c) THEN [err |-> "panic", pos |-> p]   \* char_at(pos).unwrap()
        ELSE IF q >= Len(c) THEN [err |-> "Eof", pos |-> Len(c)]   \* self.next_char()?
        ELSE [err |-> "ok", pos |-> q]

NoKey == Tag("BlankLine")

NoValue == [raw |-> <<>>, type |-> "Undetermined"]

KvpFail(e, p) == [err |-> e, pos |-> p, key |-> NoKey, value |-> NoValue]

\* the `while let Ok(b) = is_at_value_line_continuation()` loop; ContinuationRead
\* is its body once the continuation line r has been read
RECURSIVE ContinuationLoop(_, _, _)
RECURSIVE ContinuationRead(_, _, _)
ContinuationRead(c, acc, r) ==
    IF r.err # "ok" THEN [err |-> "panic", pos |-> r.pos, val |-> acc]
    ELSE IF r.pos + 1 >= Len(c)                                  \* self.next_char()?
         THEN [err |-> "Eof", pos |-> r.pos + 1, val |-> acc \o r.val]
    ELSE ContinuationLoop(c, r.pos + 1, acc \o r.val)

ContinuationLoop(c, p, acc) ==
    LET vc == is_at_value_line_continuation(c, p)
    IN  IF vc.err = "panic" THEN [err |-> "panic", pos |-> p, val |-> acc]
        ELSE IF vc.err # "ok" THEN [err |-> "ok", pos |-> p, val |-> acc]
        ELSE IF ~vc.val THEN [err |-> "ok", pos |-> p, val |-> acc]
        ELSE ContinuationRead(c, acc, read_remaining_line(c, p))

\* read_key_value_pair_raw from the continuation loop on: k the symbol read,
\* l the loop's result
PairFromContinuation(k, l) ==
    IF l.err # "ok" THEN KvpFail(l.err, l.pos)
    ELSE [err |-> "ok", pos |-> l.pos, key |-> k.val, value |-> NewValue(l.val)]

\* read_key_value_pair_raw once the rest of the key's line, v, has been read
PairFromValue(c, k, v) ==
    IF v.err # "ok" THEN KvpFail("panic", v.pos)
    ELSE IF v.pos + 1 >= Len(c) THEN KvpFail("Eof", v.pos + 1)      \* self.next_char()?
    ELSE PairFromContinuation(k, ContinuationLoop(c, v.pos + 1, v.val))

\* read_key_value_pair_raw once the symbol k has been read
PairFromSymbol(c, k) ==
    IF k.err # "ok" THEN KvpFail("panic", k.pos)
    ELSE PairFromValue(c, k, Unwrap(read_remaining_line(c, k.pos)))

read_key_value_pair_raw(c, p) ==
    LET vc == Unwrap(is_at_value_line_continuation(c, p))
        ls == Unwrap(is_at_line_start(c, p))
    IN  IF vc.err # "ok" THEN KvpFail("panic", p)
        ELSE IF vc.val THEN KvpFail("Syntax", p)
        ELSE IF ls.err # "ok" THEN KvpFail("panic", p)
        ELSE IF ~ls.val THEN KvpFail("Programming", p)
        ELSE PairFromSymbol(c, Unwrap(read_symbol(c, p)))

Kvp(r) == [key |-> r.key, value |-> r.value]

----------------------------------------------------------------------------
(* PVL structural parser *)

NoBlock == [name |-> <<>>, properties |-> <<>>]

BlockFail(e, p) == [err |-> e, pos |-> p, val |-> NoBlock]

\* the `while !self.is_eof()` loop of read_group / read_object; BlockPair is its
\* body once the pair k has been read
RECURSIVE BlockLoop(_, _, _, _)
RECURSIVE BlockPair(_, _, _, _)
BlockPair(c, blk, endKind, k) ==
    IF k.err # "ok" THEN BlockFail(k.err, k.pos)
    ELSE IF k.key.kind = endKind THEN [err |-> "ok", pos |-> k.pos, val |-> blk]
    ELSE BlockLoop(c, k.pos, [blk EXCEPT !.properties = Append(@, Kvp(k))], endKind)

BlockLoop(c, p, blk, endKind) ==
    LET b == is_blank_line(c, p)
    IN  IF is_eof(c, p) THEN [err |-> "ok", pos |-> p, val |-> blk]
        ELSE IF b.err # "ok" THEN BlockFail(b.err, p)
        ELSE IF b.val
             THEN IF p + 1 >= Len(c) THEN BlockFail("Eof", p + 1)   \* self.next_char()?
                  ELSE BlockLoop(c, p + 1, blk, endKind)
        ELSE BlockPair(c, blk, endKind, read_key_value_pair_raw(c, p))

\* read_group / read_object once the declaration line s has been read
BlockStart(c, endKind, s) ==
    LET n == parse_flag(s.value)
    IN  IF s.err # "ok" THEN BlockFail(s.err, s.pos)
        ELSE IF n.err # "ok" THEN BlockFail(n.err, s.pos)
        ELSE BlockLoop(c, s.pos, [name |-> n.val, properties |-> <<>>], endKind)

read_group(c, p) ==
    LET g == is_at_group(c, p)
    IN  IF is_eof(c, p) THEN BlockFail("Eof", p)
        ELSE IF g.err # "ok" THEN BlockFail(g.err, p)
        ELSE IF ~g.val THEN BlockFail("Programming", p)
        ELSE BlockStart(c, "GroupEnd", read_key_value_pair_raw(c, p))

read_object(c, p) ==
    LET o == is_at_object(c, p)
    IN  IF is_eof(c, p) THEN BlockFail("Eof", p)
        ELSE IF o.err # "ok" THEN BlockFail(o.err, p)
        ELSE IF ~o.val THEN BlockFail("Programming", p)
        ELSE BlockStart(c, "ObjectEnd", read_key_value_pair_raw(c, p))

\* the condition of the top-level loop of Pvl::from_string
LoopCond(c, p) == ~is_eof(c, p) /\ ~is_at_end(c, p)

\* which arm of the loop body the cursor selects
Branch(c, p) ==
    IF is_at_multiline_comment_start(c, p) THEN "comment"
    ELSE IF Unwrap(is_at_line_start(c, p)).val /\ ~Unwrap(is_blank_line(c, p)).val
         THEN IF Unwrap(is_at_group(c, p)).val THEN "group"
              ELSE IF Unwrap(is_at_object(c, p)).val THEN "object"
              ELSE "property"
    ELSE "skip"

\* the parser's state as a record, so that a whole run can be computed too
Start == [pos |-> 0, properties |-> <<>>, groups |-> <<>>, objects |-> <<>>,
          status |-> "running", errKind |-> "none", exit |-> "none"]

Panic(st, p) == [st EXCEPT !.pos = p, !.status = "panic"]

\* the end of the loop body: `if !is_eof && !is_at_end { jump_to_next_line()? }`
StepTail(c, st) ==
    LET j == jump_to_next_line(c, st.pos)
    IN  IF st.status # "running" THEN st           \* break, or an abort in the arm
        ELSE IF ~LoopCond(c, st.pos) THEN st
        ELSE IF j.err = "ok" THEN [st EXCEPT !.pos = j.pos]
        ELSE IF j.err = "panic" THEN Panic(st, j.pos)
        ELSE [st EXCEPT !.pos = j.pos, !.status = "Err", !.errKind = j.err]

\* `let _ = reader.skip_multiline_comment().unwrap()`
AfterComment(st, m) ==
    IF m.err # "ok" THEN Panic(st, m.pos) ELSE [st EXCEPT !.pos = m.pos]

\* `pvl.groups.push(reader.read_group().unwrap())`
AfterGroup(st, g) ==
    IF g.err # "ok" THEN Panic(st, g.pos)
    ELSE [st EXCEPT !.pos = g.pos, !.groups = Append(@, g.val)]

\* `pvl.objects.push(reader.read_object().unwrap())`
AfterObject(st, o) ==
    IF o.err # "ok" THEN Panic(st, o.pos)
    ELSE [st EXCEPT !.pos = o.pos, !.objects = Append(@, o.val)]

\* `else if let Ok(kvp) = reader.read_key_value_pair_raw() { ... }`
AfterPair(st, k) ==
    IF k.err = "panic" THEN Panic(st, k.pos)
    ELSE IF k.err # "ok" THEN [st EXCEPT !.pos = k.pos]
    ELSE IF k.key.kind = "End"
         THEN [st EXCEPT !.pos = k.pos, !.status = "Ok", !.exit = "End"]
    ELSE [st EXCEPT !.pos = k.pos, !.properties = Append(@, Kvp(k))]

\* one arm of the loop body, up to the tail
StepArm(c, st, arm) ==
    CASE arm = "comment"  -> AfterComment(st, skip_multiline_comment(c, st.pos))
      [] arm = "group"    -> AfterGroup(st, read_group(c, st.pos))
      [] arm = "object"   -> AfterObject(st, read_object(c, st.pos))
      [] arm = "property" -> AfterPair(st, read_key_value_pair_raw(c, st.pos))
      [] OTHER            -> st

\* one iteration of the top-level loop
Iteration(c, st) == StepTail(c, StepArm(c, st, Branch(c, st.pos)))

\* leaving the loop because its condition is false: Ok(pvl)
Leave(c, st) ==
    [st EXCEPT !.status = "Ok",
               !.exit = IF is_eof(c, st.pos) THEN "eof" ELSE "is_at_end"]

\* the whole loop; fuel bounds the number of iterations computed
RECURSIVE RunLoop(_, _, _)
RunLoop(c, st, fuel) ==
    IF st.status # "running" \/ fuel = 0 THEN st
    ELSE IF ~LoopCond(c, st.pos) THEN Leave(c, st)
    ELSE RunLoop(c, Iteration(c, st), fuel - 1)

----------------------------------------------------------------------------
(* The texts handed to Pvl::from_string *)

MaxSegs == 2

MaxIters == 2 * MaxSegs + 4

SegText(id) ==
    CASE id = "kv"          -> <<"A"," ","="," ","1",NL>>
      [] id = "kvLong"      -> <<"B"," ","="," ">> \o Rep("x", LINE_CONTINUATION_PREFIX_LEN + 3) \o <<NL>>
      [] id = "blank"       -> <<NL>>
      [] id = "spaces"      -> <<" "," ",NL>>
      [] id = "comment"     -> <<"/","*"," ","c"," ","*","/",NL>>
      [] id = "commentText" -> <<"/","*"," ","c"," ","*","/"," ","x",NL>>
      [] id = "group"       -> <<"G","R","O","U","P"," ","="," ","I","M","A","G","E",NL,"C"," ","="," ","2",NL,"E","N","D","_","G","R","O","U","P",NL>>
      [] id = "object"      -> <<"O","B","J","E","C","T"," ","="," ","I","M","A","G","E",NL,"D"," ","="," ","3",NL,"E","N","D","_","O","B","J","E","C","T",NL>>
      [] id = "continued"   -> <<"E"," ","="," ","a","b",NL>> \o LINE_CONTINUATION_PREFIX \o <<"c","d",NL>>
      [] id = "endTime"     -> <<"E","N","D","_","T","I","M","E"," ","="," ","5",NL>>
      [] id = "crlf"        -> <<"F"," ","="," ","6",CR,NL>>
      [] id = "image"       -> <<"O","B","J","E","C","T"," ","="," ","I","M","A","G","E",NL,"L","I","N","E","S"," ","="," ","2",NL,"L","I","N","E","_","S","A","M","P","L","E","S"," ","="," ","3",NL,"B","A","N","D","S"," ","="," ","1",NL,"E","N","D","_","O","B","J","E","C","T",NL>>
      [] id = "imageBad"    -> <<"O","B","J","E","C","T"," ","="," ","I","M","A","G","E",NL,"L","I","N","E","S"," ","="," ","t","w","o",NL,"L","I","N","E","_","S","A","M","P","L","E","S"," ","="," ","3",NL,"B","A","N","D","S"," ","="," ","-","1",NL,"E","N","D","_","O","B","J","E","C","T",NL>>
      [] id = "imageNoBands" -> <<"O","B","J","E","C","T"," ","="," ","I","M","A","G","E",NL,"L","I","N","E","S"," ","="," ","2",NL,"L","I","N","E","_","S","A","M","P","L","E","S"," ","="," ","3",NL,"E","N","D","_","O","B","J","E","C","T",NL>>
      [] id = "pointer"     -> <<"^","I","M","A","G","E"," ","="," ","(",DQ,"x",".","i","m","g",DQ,")",NL>>
      [] id = "groupBlank"  -> <<"G","R","O","U","P"," ","="," ","I","M","A","G","E",NL,NL,"C"," ","="," ","2",NL,"E","N","D","_","G","R","O","U","P",NL>>
      [] id = "groupSpaces" -> <<"G","R","O","U","P"," ","="," ","I","M","A","G","E",NL," "," ",NL,"C"," ","="," ","2",NL,"E","N","D","_","G","R","O","U","P",NL>>
      [] id = "groupComment" -> <<"G","R","O","U","P"," ","="," ","I","M","A","G","E",NL,"/","*"," ","c"," ","*","/",NL,"C"," ","="," ","2",NL,"E","N","D","_","G","R","O","U","P",NL>>
      [] id = "nested"      -> <<"O","B","J","E","C","T"," ","="," ","X",NL,"G","R","O","U","P"," ","="," ","I","M","A","G","E",NL,"C"," ","="," ","2",NL,"E","N","D","_","G","R","O","U","P",NL,"D"," ","="," ","3",NL,"E","N","D","_","O","B","J","E","C","T",NL>>

SegIds == {"kv", "kvLong", "blank", "spaces", "comment", "commentText", "group",
           "object", "continued", "endTime", "crlf", "image", "imageBad",
           "imageNoBands", "pointer", "groupBlank", "groupSpaces", "groupComment",
           "nested"}

\* the END line that closes the label: none, END with or without its line
\* terminator, or END after a space
EndText(id) ==
    CASE id = "none"     -> <<>>
      [] id = "END"      -> <<"E","N","D",NL>>
      [] id = "ENDnoNL"  -> <<"E","N","D">>
      [] id = "spaceEND" -> <<" ","E","N","D",NL>>

EndIds == {"none", "END", "ENDnoNL", "spaceEND"}

\* what follows the label: nothing, a line terminator, pixel bytes; "cut" takes
\* the label's last line terminator away instead
TrailText(id) ==
    CASE id = "nl"  -> <<NL>>
      [] id = "pad" -> Rep("z", LINE_CONTINUATION_PREFIX_LEN + 3)
      [] OTHER      -> <<>>

TrailIds == {"none", "nl", "pad", "cut"}

RECURSIVE Concat(_)
Concat(ss) == IF ss = <<>> THEN <<>> ELSE Head(ss) \o Concat(Tail(ss))

SegTexts(segs) == [i \in 1..Len(segs) |-> SegText(segs[i])]

\* L: the label text of an input
LabelText(in) == Concat(SegTexts(in.segs)) \o EndText(in.end)

\* L followed by T
FullText(in) ==
    LET l == LabelText(in)
    IN  IF in.trail = "cut"
        THEN IF l # <<>> /\ l[Len(l)] = NL THEN SubSeq(l, 1, Len(l) - 1) ELSE l
        ELSE l \o TrailText(in.trail)

SegSeqs == UNION {[1..n -> SegIds] : n \in 0..MaxSegs}

Inputs == [segs : SegSeqs, end : EndIds, trail : TrailIds]

----------------------------------------------------------------------------
(* lib.rs VicarReader::new_from_detached_label over the parsed Document *)

LINES_KEY == <<"L","I","N","E","S">>

LINE_SAMPLES_KEY == <<"L","I","N","E","_","S","A","M","P","L","E","S">>

BANDS_KEY == <<"B","A","N","D","S">>

IMAGE_POINTER == <<"^","I","M","A","G","E">>

\* the properties a getter's filter keeps: Key or Pointer with that name
NameMatches(props, name) ==
    {i \in 1..Len(props) :
        props[i].key.kind \in {"Key", "Pointer"} /\ props[i].key.name = name}

\* pvl.rs get_property! of Group and Object: .next().unwrap() on the matches
grouping_get_property(props, name) ==
    IF NameMatches(props, name) = {} THEN [err |-> "panic", val |-> NoVal]
    ELSE [err |-> "ok", val |-> props[Least(NameMatches(props, name))]]

\* pvl.rs has_property! of Group and Object: whether the filter keeps anything
grouping_has_property(props, name) == NameMatches(props, name) # {}

\* pvl.rs Pvl::get_property: the first match or None
Pvl_get_property(props, name) ==
    IF NameMatches(props, name) = {} THEN [err |-> "None", val |-> NoVal]
    ELSE [err |-> "ok", val |-> props[Least(NameMatches(props, name))]]

\* pvl.rs Pvl::get_object: the first object of that name or None
Pvl_get_object(objs, name) ==
    IF {i \in 1..Len(objs) : objs[i].name = name} = {} THEN [err |-> "None", val |-> NoBlock]
    ELSE [err |-> "ok", val |-> objs[Least({i \in 1..Len(objs) : objs[i].name = name})]]

\* .parse_usize().unwrap_or(0)
UsizeOrZero(r) == IF r.err = "ok" THEN r.val ELSE 0

DimensionFrom(p) ==
    IF p.err # "ok" THEN [err |-> "panic", val |-> 0]
    ELSE [err |-> "ok", val |-> UsizeOrZero(impl_parse_pvl_fn("parse_usize", p.val.value))]

\* image_object.get_property(key).unwrap().value.parse_usize().unwrap_or(0)
DimensionOf(obj, key) == DimensionFrom(grouping_get_property(obj.properties, key))

\* .first().unwrap().to_owned().parse_string().unwrap() on the parsed array
FirstString(arr) ==
    IF arr.err # "ok" THEN [err |-> "panic", val |-> NoVal]
    ELSE IF pvl_parse_string(arr.val[1]).err # "ok" THEN [err |-> "panic", val |-> NoVal]
    ELSE pvl_parse_string(arr.val[1])

FileNameFrom(p) ==
    IF p.err # "ok" THEN [err |-> "panic", val |-> NoVal]
    ELSE FirstString(parse_array(p.val.value, "pvl"))

\* pvl.get_property("^IMAGE").unwrap().value.parse_array().unwrap() ...
FileNameOf(props) == FileNameFrom(Pvl_get_property(props, IMAGE_POINTER))

\* the bytes of the image file the label points to
ImageFileText == <<"a","b","c","d","e","f">>

\* the Ok(VicarReader { .. }) of new_from_detached_label
DetachedReader(lines, samples, bands, strs) ==
    [built |-> TRUE, data_start |-> 0, label_size |-> 0, dimensions |-> bands,
     recsize |-> 0, lines |-> lines, samples |-> samples, bands |-> bands,
     org |-> "Bsq", format |-> "Byte", data_type |-> "Image", strings |-> strs,
     binary_bytes_before_record |-> 0, binary_bytes_header |-> 0]

\* the body of `if let Some(image_object)`: d are the three dimensions and the
\* file name, image says whether the file the label points to can be read
DetachedFrom(d, image) ==
    IF \E i \in 1..Len(d) : d[i].err # "ok" THEN [err |-> "panic", reader |-> NoReader]
    ELSE IF image = "missing" THEN [err |-> "General", reader |-> NoReader]
    ELSE [err |-> "ok",
          reader |-> DetachedReader(d[1].val, d[2].val, d[3].val, ImageFileText)]

DetachedWith(obj, props, image) ==
    IF obj.err # "ok" THEN [err |-> "PropertyNotFound", reader |-> NoReader]
    ELSE DetachedFrom(<< DimensionOf(obj.val, LINES_KEY),
                         DimensionOf(obj.val, LINE_SAMPLES_KEY),
                         DimensionOf(obj.val, BANDS_KEY),
                         FileNameOf(props) >>, image)

\* VicarReader::new_from_detached_label once Pvl::load has left the parser as st
new_from_detached_label(st, image) ==
    IF st.status = "panic" THEN [err |-> "panic", reader |-> NoReader]
    ELSE IF st.status # "Ok" THEN [err |-> "LabelError", reader |-> NoReader]
    ELSE DetachedWith(Pvl_get_object(st.objects, IMAGE_TOKEN), st.properties, image)

----------------------------------------------------------------------------
(* Pvl::from_string as a state machine: one action per arm of the loop *)

Cur == [pos |-> pos, properties |-> properties, groups |-> groups,
        objects |-> objects, status |-> status, errKind |-> errKind,
        exit |-> exit]

Becomes(st) ==
    /\ pos' = st.pos
    /\ properties' = st.properties
    /\ groups' = st.groups
    /\ objects' = st.objects
    /\ status' = st.status
    /\ errKind' = st.errKind
    /\ exit' = st.exit

\* Pvl::from_string on a text, as one value: the state the loop ends in
from_string(text) == RunLoop(filter_linefeeds(text), Start, MaxIters)

\* PvlReader::new and the empty Pvl
Init ==
    /\ input \in Inputs
    /\ content = filter_linefeeds(FullText(input))
    /\ pos = 0
    /\ properties = <<>>
    /\ groups = <<>>
    /\ objects = <<>>
    /\ status = "running"
    /\ errKind = "none"
    /\ exit = "none"
    /\ iters = 0
    /\ prevPos = 0
    /\ frag = <<>>
    /\ vtPvl = "none"
    /\ vtLib = "none"
    /\ call = NoCall
    /\ strings = <<>>
    /\ vr = NoReader
    /\ vrStatus = "none"

\* the loop is entered and its body takes this arm
AtArm(arm) ==
    /\ status = "running"
    /\ iters < MaxIters
    /\ LoopCond(content, pos)
    /\ Branch(content, pos) = arm

\* the rest of the iteration once the arm has left the parser as st
Advance(st) ==
    /\ Becomes(StepTail(content, st))
    /\ iters' = iters + 1
    /\ prevPos' = pos
    /\ UNCHANGED <<content, input, valueVars, call, vicarVars>>

SkipComment ==
    /\ AtArm("comment")
    /\ Advance(AfterComment(Cur, skip_multiline_comment(content, pos)))

ReadGroup ==
    /\ AtArm("group")
    /\ Advance(AfterGroup(Cur, read_group(content, pos)))

ReadObject ==
    /\ AtArm("object")
    /\ Advance(AfterObject(Cur, read_object(content, pos)))

ReadProperty ==
    /\ AtArm("property")
    /\ Advance(AfterPair(Cur, read_key_value_pair_raw(content, pos)))

\* no arm is taken: a blank line, or a cursor that is not at a line start
SkipLine ==
    /\ AtArm("skip")
    /\ Advance(Cur)

Return ==
    /\ status = "running"
    /\ ~LoopCond(content, pos)
    /\ Becomes(Leave(content, Cur))
    /\ UNCHANGED <<content, input, iters, prevPos, valueVars, call, vicarVars>>

\* VicarReader::new_from_detached_label(label_file_path), from the point where
\* Pvl::load has returned or aborted; the image file it points to is there or not
NewFromDetachedLabel ==
    /\ status \in {"Ok", "Err", "panic"}
    /\ vrStatus = "none"
    /\ call = NoCall
    /\ \E image \in {"present", "missing"} :
          /\ vrStatus' = new_from_detached_label(Cur, image).err
          /\ vr' = new_from_detached_label(Cur, image).reader
          /\ strings' = IF new_from_detached_label(Cur, image).err = "ok"
                        THEN ImageFileText ELSE strings
          /\ call' = [fn |-> "new_from_detached_label", image |-> image]
    /\ UNCHANGED <<parserVars, valueVars>>

\* the names the lookups are asked for
LookupNames == {<<"C">>, LINES_KEY, BANDS_KEY}

\* the Groups or the Objects of the Document
Blocks(kind) == IF kind = "Group" THEN groups ELSE objects

\* get_property(name) of a Group or an Object of the Document returned
GroupingGetProperty ==
    /\ status = "Ok"
    /\ call = NoCall
    /\ \E kind \in {"Group", "Object"}, name \in LookupNames :
          \E i \in 1..Len(Blocks(kind)) :
              call' = [fn |-> "get_property", block |-> kind, at |-> i, name |-> name,
                       res |-> grouping_get_property(Blocks(kind)[i].properties, name)]
    /\ UNCHANGED <<parserVars, valueVars, vicarVars>>

\* has_property(name) of a Group or an Object of the Document returned
GroupingHasProperty ==
    /\ status = "Ok"
    /\ call = NoCall
    /\ \E kind \in {"Group", "Object"}, name \in LookupNames :
          \E i \in 1..Len(Blocks(kind)) :
              call' = [fn |-> "has_property", block |-> kind, at |-> i, name |-> name,
                       res |-> grouping_has_property(Blocks(kind)[i].properties, name)]
    /\ UNCHANGED <<parserVars, valueVars, vicarVars>>

Next ==
    \/ SkipComment
    \/ ReadGroup
    \/ ReadObject
    \/ ReadProperty
    \/ SkipLine
    \/ Return
    \/ NewFromDetachedLabel
    \/ GroupingGetProperty
    \/ GroupingHasProperty

Spec == Init /\ [][Next]_vars

----------------------------------------------------------------------------
(* Value::new of both engines, applied to one raw fragment *)

MaxFragLen == 3

FragAlphabet == {"5", "V", "-", ".", SQ, DQ}

\* the fragments the documentation and the tests talk about
NamedFrags ==
    { <<"2","#","1","0","1","1","#">>,
      <<DQ,"T","R","U","E",DQ>>,
      <<SQ,"T","R","U","E",SQ>>,
      <<"F","O","O","1","2","3">>,
      <<"1","2","3","a","b","c">>,
      <<"(","1",",","2",")">>,
      <<"+","1","2">>,
      <<"1","#","1">>,
      <<"t","r","u","e">>,
      <<"T","R","U","E">>,
      <<"5","e","5">>,
      <<"(","1",",","2",",","3",")">>,
      <<"(",")">>,
      <<"(",",",")">>,
      <<"(","5",",","V","V",")">>,
      <<"(",DQ,"x",DQ,")">> }

\* the tokens of the three enumerations
PixelFormatTokens ==
    { <<"B","Y","T","E">>,
      <<"H","A","L","F">>,
      <<"W","O","R","D">>,
      <<"F","U","L","L">>,
      <<"L","O","N","G">>,
      <<"R","E","A","L">>,
      <<"D","O","U","B">>,
      <<"C","O","M","P">>,
      <<"C","O","M","P","L","E","X">> }

DataTypeTokens ==
    { <<"I","M","A","G","E">>,
      <<"P","A","R","M","S">>,
      <<"P","A","R","M">>,
      <<"P","A","R","A","M">>,
      <<"G","R","A","P","H","1">>,
      <<"G","R","A","P","H","2">>,
      <<"G","R","A","P","H","3">>,
      <<"T","A","B","U","L","A","R">> }

DataOrganizationTokens ==
    { <<"B","S","Q">>,
      <<"B","I","L">>,
      <<"B","I","P">> }

\* every way of writing a token in upper and lower case letters
CaseVariants(t) ==
    { [i \in 1..Len(t) |-> IF i \in low THEN to_lowercase(<<t[i]>>)[1] ELSE t[i]] :
          low \in SUBSET (1..Len(t)) }

\* texts that are no token of any enumeration
NearTokens ==
    { <<"B","Y","T","E","S">>,
      <<"B","Y","T">>,
      <<" ","B","S","Q">>,
      <<"B","S","Q"," ">>,
      <<"G","R","A","P","H","4">>,
      <<"F","O","O">>,
      <<"'","B","S","Q","'">> }

EnumTexts ==
    UNION {CaseVariants(t) :
              t \in PixelFormatTokens \cup DataTypeTokens \cup DataOrganizationTokens}
        \cup NearTokens

Fragments ==
    NamedFrags \cup EnumTexts \cup UNION {[1..n -> FragAlphabet] : n \in 0..MaxFragLen}

InitValue ==
    /\ frag \in Fragments
    /\ vtPvl = "none"
    /\ vtLib = "none"
    /\ input = [segs |-> <<>>, end |-> "none", trail |-> "none"]
    /\ content = <<>>
    /\ pos = 0
    /\ properties = <<>>
    /\ groups = <<>>
    /\ objects = <<>>
    /\ status = "idle"
    /\ errKind = "none"
    /\ exit = "none"
    /\ iters = 0
    /\ prevPos = 0
    /\ call = NoCall
    /\ strings = <<>>
    /\ vr = NoReader
    /\ vrStatus = "none"

\* pvl.rs Value::new(frag)
PvlValueNew ==
    /\ vtPvl = "none"
    /\ vtPvl' = pvl_determine_type(frag)
    /\ UNCHANGED <<parserVars, frag, vtLib, call, vicarVars>>

\* lib.rs Value::new(frag)
LibValueNew ==
    /\ vtLib = "none"
    /\ vtLib' = lib_determine_type(frag)
    /\ UNCHANGED <<parserVars, frag, vtPvl, call, vicarVars>>

Engines == {"pvl", "lib"}

\* the Value an engine built from frag
ValueOf(eng) == [raw |-> frag, type |-> IF eng = "pvl" THEN vtPvl ELSE vtLib]

\* one of the macro's accessors, called once on the Value of one engine
ParseScalar ==
    /\ call = NoCall
    /\ \E eng \in Engines, fn \in MacroAccessors :
          /\ ValueOf(eng).type # "none"
          /\ call' = [fn |-> fn, eng |-> eng,
                      res |-> IF eng = "pvl" THEN impl_parse_pvl_fn(fn, ValueOf(eng))
                              ELSE impl_parse_fn(fn, ValueOf(eng))]
    /\ UNCHANGED <<parserVars, valueVars, vicarVars>>

\* Value::parse_string, called once on the Value of one engine
ParseString ==
    /\ call = NoCall
    /\ \E eng \in Engines :
          /\ ValueOf(eng).type # "none"
          /\ call' = [fn |-> "parse_string", eng |-> eng,
                      res |-> IF eng = "pvl" THEN pvl_parse_string(ValueOf(eng))
                              ELSE lib_parse_string(ValueOf(eng))]
    /\ UNCHANGED <<parserVars, valueVars, vicarVars>>

\* Value::parse_array, called once on the Value of one engine
ParseArray ==
    /\ call = NoCall
    /\ \E eng \in Engines :
          /\ ValueOf(eng).type # "none"
          /\ call' = [fn |-> "parse_array", eng |-> eng,
                      res |-> parse_array(ValueOf(eng), eng)]
    /\ UNCHANGED <<parserVars, valueVars, vicarVars>>

Enums == {"PixelFormat", "DataType", "DataOrganization"}

\* from_string of one of the enumerations, called once on the text frag
EnumFromString ==
    /\ call = NoCall
    /\ \E enum \in Enums :
          call' = [fn |-> "from_string", enum |-> enum,
                   res |-> CASE enum = "PixelFormat" -> PixelFormat_from_string(frag)
                             [] enum = "DataType" -> DataType_from_string(frag)
                             [] enum = "DataOrganization" -> DataOrganization_from_string(frag)]
    /\ UNCHANGED <<parserVars, valueVars, vicarVars>>

NextValue ==
    \/ PvlValueNew
    \/ LibValueNew
    \/ ParseScalar
    \/ ParseString
    \/ ParseArray
    \/ EnumFromString

SpecValue == InitValue /\ [][NextValue]_vars

----------------------------------------------------------------------------
(* VicarReader as a state machine over files made of a label, a binary header
   and the samples *)

MaxDim == 2

\* the decimal text of a number
RECURSIVE DecimalText(_)
DecimalText(n) ==
    IF n < 10 THEN <<DigitSeq[n + 1]>>
    ELSE DecimalText(n \div 10) \o <<DigitSeq[(n % 10) + 1]>>

\* the i-th byte after the binary header: a, b, .. p and again
SampleByte(i) == LowerSeq[((i - 1) % 16) + 1]

\* KEY=value and a space, nothing for the token the file lacks
LabelToken(in, key, val) ==
    IF in.missing = key THEN <<>> ELSE key \o <<"=">> \o val \o <<" ">>

Quoted(in, t) == in.quote \o t \o in.quote

VicarLabelText(in) ==
    LabelToken(in, LBLSIZE_KEY, DecimalText(in.lblsize))
        \o LabelToken(in, RECSIZE_KEY, DecimalText(in.recsize))
        \o LabelToken(in, DIM_KEY, DecimalText(in.dim))
        \o LabelToken(in, N1_KEY, DecimalText(in.n1))
        \o LabelToken(in, N2_KEY, DecimalText(in.n2))
        \o LabelToken(in, N3_KEY, DecimalText(in.n3))
        \o LabelToken(in, NLB_KEY, DecimalText(in.nlb))
        \o LabelToken(in, NBB_KEY, DecimalText(in.nbb))
        \o LabelToken(in, TYPE_KEY, Quoted(in, in.type))
        \o LabelToken(in, FORMAT_KEY, Quoted(in, in.format))
        \o LabelToken(in, ORG_KEY, Quoted(in, in.org))

\* the label padded with spaces to LBLSIZE bytes
PaddedLabel(t, size) == IF Len(t) >= size THEN t ELSE t \o Rep(" ", size - Len(t))

\* bytes of one sample as the file stores them
FormatBytes(format) ==
    IF PixelFormat_from_string(format).err = "ok"
    THEN bytes_per_sample(PixelFormat_from_string(format).val)
    ELSE 1

\* N2 * N3 records of NBB prefix bytes and N1 samples, then the bytes that
\* follow the image in the file; in.trailer is text that follows those
PixelRegionLen(in) ==
    (in.nbb + in.n1 * FormatBytes(in.format)) * in.n2 * in.n3 + in.tail

WholeFile(in) ==
    in.lead \o PaddedLabel(VicarLabelText(in), in.lblsize)
        \o Rep("h", in.nlb * in.recsize)
        \o [i \in 1..PixelRegionLen(in) |-> SampleByte(i)]
        \o in.trailer

\* the text VicarReader::new reads: the file, or its first in.cut bytes when
\* the file is cut short
VicarFileText(in) ==
    IF in.cut > 0 THEN SubSeq(WholeFile(in), 1, in.cut) ELSE WholeFile(in)

BYTE_TOKEN == <<"B","Y","T","E">>

BSQ_TOKEN == <<"B","S","Q">>

BIL_TOKEN == <<"B","I","L">>

BIP_TOKEN == <<"B","I","P">>

\* the minimal file of the documentation: the label padded to 100 bytes and
\* 16 samples
MinimalFile ==
    [lead |-> <<>>, lblsize |-> 100, recsize |-> 100, dim |-> 3,
     n1 |-> 4, n2 |-> 4, n3 |-> 1, nlb |-> 0, nbb |-> 0,
     type |-> IMAGE_TOKEN, format |-> BYTE_TOKEN, org |-> BSQ_TOKEN,
     quote |-> <<>>, missing |-> <<>>, tail |-> 0, cut |-> 0, trailer |-> <<>>]

\* the same file with TYPE, FORMAT and ORG in single quotes, as VICAR writes them
MinimalQuoted == [MinimalFile EXCEPT !.quote = <<SQ>>]

KeySet == {RequiredKeys[i] : i \in 1..Len(RequiredKeys)}

FormatTexts ==
    { BYTE_TOKEN, <<"H","A","L","F">>, <<"W","O","R","D">>, <<"F","U","L","L">>, <<"L","O","N","G">>, <<"R","E","A","L">>, <<"D","O","U","B">>, <<"C","O","M","P">> }

OrgTexts == {BSQ_TOKEN, BIL_TOKEN, BIP_TOKEN}

Leads == {<<>>, <<"x","x"," ">>}

\* a label item of the history labels, which no file of RegularFiles holds
TASK_KEY == <<"T","A","S","K">>

\* text after the image: a TASK item, and one the file ends in the middle of
Trailers == {TASK_KEY \o <<"=","X"," ">>, TASK_KEY \o <<"=">>}

\* the keys the scans are asked for
ScanKeys == KeySet \cup {TASK_KEY}

\* well-formed files of every organization and format
RegularFiles ==
    { [MinimalQuoted EXCEPT !.lead = lead, !.lblsize = 100 + Len(lead), !.recsize = 8,
                            !.n1 = n[1], !.n2 = n[2], !.n3 = n[3],
                            !.nlb = hb[1], !.nbb = hb[2],
                            !.format = f, !.org = o, !.tail = 8] :
          lead \in Leads, n \in (1..MaxDim) \X (1..MaxDim) \X (1..MaxDim),
          hb \in {0, 1} \X {0, 2}, f \in FormatTexts, o \in OrgTexts }

\* the documentation's examples, files lacking one token, a file cut inside
\* its first token and a file with an unknown organization
SpecialFiles ==
    {MinimalFile, MinimalQuoted}
        \cup {[MinimalQuoted EXCEPT !.n1 = 5, !.n2 = 10, !.n3 = 3, !.org = o] : o \in OrgTexts}
        \cup {[MinimalQuoted EXCEPT !.missing = k] : k \in KeySet}
        \cup {[MinimalQuoted EXCEPT !.cut = 3]}
        \cup {[MinimalQuoted EXCEPT !.org = <<"X","Y","Z">>]}
        \cup {[MinimalQuoted EXCEPT !.trailer = t] : t \in Trailers}

VicarFiles == RegularFiles \cup SpecialFiles

InitVicar ==
    /\ input \in VicarFiles
    /\ strings = VicarFileText(input)
    /\ vr = NoReader
    /\ vrStatus = "none"
    /\ call = NoCall
    /\ frag = <<>>
    /\ vtPvl = "none"
    /\ vtLib = "none"
    /\ content = <<>>
    /\ pos = 0
    /\ properties = <<>>
    /\ groups = <<>>
    /\ objects = <<>>
    /\ status = "idle"
    /\ errKind = "none"
    /\ exit = "none"
    /\ iters = 0
    /\ prevPos = 0

\* VicarReader::new(file_path)
New ==
    /\ vrStatus = "none"
    /\ vrStatus' = new(strings).err
    /\ vr' = new(strings).reader
    /\ UNCHANGED <<parserVars, valueVars, call, strings>>

\* get_pixel_value(line, sample, band) on the reader built, for a pixel of the image
GetPixelValue ==
    /\ vr.built
    /\ call = NoCall
    /\ \E line \in 0..(vr.lines - 1), sample \in 0..(vr.samples - 1),
          band \in 0..(vr.bands - 1) :
          call' = [fn |-> "get_pixel_value", line |-> line, sample |-> sample,
                   band |-> band, res |-> get_pixel_value(vr, line, sample, band)]
    /\ UNCHANGED <<parserVars, valueVars, vicarVars>>

\* scan_for_property(key) on the reader built
ScanForProperty ==
    /\ vr.built
    /\ call = NoCall
    /\ \E key \in ScanKeys :
          call' = [fn |-> "scan_for_property", key |-> key,
                   res |-> _scan_for_property(vr.strings, key)]
    /\ UNCHANGED <<parserVars, valueVars, vicarVars>>

\* has_property(key) on the reader built
HasProperty ==
    /\ vr.built
    /\ call = NoCall
    /\ \E key \in ScanKeys :
          call' = [fn |-> "has_property", key |-> key,
                   res |-> _has_property(vr.strings, key)]
    /\ UNCHANGED <<parserVars, valueVars, vicarVars>>

NextVicar ==
    \/ New
    \/ GetPixelValue
    \/ ScanForProperty
    \/ HasProperty

SpecVicar == InitVicar /\ [][NextVicar]_vars

----------------------------------------------------------------------------
(* The cursor operations of PvlReader, called one after another on a text *)
(* (specification SpecReader)                                             *)

\* how far past the end of the text the model lets next_char carry the cursor
MaxOvershoot == 2

\* PvlReader::next_char: the cursor moves before the character is looked up
next_char(c, p) == [err |-> IF p + 1 >= Len(c) THEN "Eof" ELSE "ok", pos |-> p + 1]

PAD_LINE == Rep("z", LINE_CONTINUATION_PREFIX_LEN + 3) \o <<NL>>

\* the texts a reader is built on
ReaderText(id) ==
    CASE id = "plain"     -> <<"A"," ","="," ","1",NL>> \o PAD_LINE
      [] id = "tight"     -> <<"A","=","1","2",NL>> \o PAD_LINE
      [] id = "inner"     -> <<"U"," ","="," ","a","=","b","c",NL>> \o PAD_LINE
      [] id = "comment"   -> <<"/","*"," ","c"," ","*","/",NL,"A"," ","="," ","1",NL>> \o PAD_LINE
      [] id = "prefixed"  -> LINE_CONTINUATION_PREFIX \o <<"c","d",NL>> \o PAD_LINE
      [] id = "prefixEnd" -> <<"A"," ","="," ","1",NL>> \o LINE_CONTINUATION_PREFIX
      [] id = "short"     -> <<"A"," ","="," ","1">>

ReaderTextIds == {"plain", "tight", "inner", "comment", "prefixed", "prefixEnd", "short"}

\* the texts whose first line is KEY = VALUE, followed by a line that is no continuation
KvTextIds == {"plain", "tight", "inner"}

JumpSizes == {1, 2, LINE_CONTINUATION_PREFIX_LEN}

\* PvlReader::new(content)
InitReader ==
    /\ input \in ReaderTextIds
    /\ content = filter_linefeeds(ReaderText(input))
    /\ pos = 0
    /\ prevPos = 0
    /\ status = "reader"
    /\ call = NoCall
    /\ properties = <<>>
    /\ groups = <<>>
    /\ objects = <<>>
    /\ errKind = "none"
    /\ exit = "none"
    /\ iters = 0
    /\ frag = <<>>
    /\ vtPvl = "none"
    /\ vtLib = "none"
    /\ strings = <<>>
    /\ vr = NoReader
    /\ vrStatus = "none"

\* the reader after an operation fn that answered r; an abort ends the run
ReaderStep(fn, r) ==
    /\ status = "reader"
    /\ pos' = r.pos
    /\ prevPos' = pos
    /\ call' = [fn |-> fn, res |-> r]
    /\ status' = IF r.err = "panic" THEN "panic" ELSE "reader"
    /\ UNCHANGED <<content, properties, groups, objects, errKind, exit, iters, input,
                   valueVars, vicarVars>>

NextChar ==
    /\ pos < Len(content) + MaxOvershoot
    /\ ReaderStep("next_char", next_char(content, pos))

Jump == \E n \in JumpSizes : ReaderStep("jump", jump(content, pos, n))

JumpToNextLine == ReaderStep("jump_to_next_line", jump_to_next_line(content, pos))

IsAtLineStart ==
    ReaderStep("is_at_line_start",
               [err |-> is_at_line_start(content, pos).err, pos |-> pos])

SkipMultilineComment ==
    ReaderStep("skip_multiline_comment", skip_multiline_comment(content, pos))

ReadSymbol == ReaderStep("read_symbol", read_symbol(content, pos))

ReadRemainingLine == ReaderStep("read_remaining_line", read_remaining_line(content, pos))

ReadKeyValuePairRaw ==
    ReaderStep("read_key_value_pair_raw", read_key_value_pair_raw(content, pos))

NextReader ==
    \/ NextChar
    \/ Jump
    \/ JumpToNextLine
    \/ IsAtLineStart
    \/ SkipMultilineComment
    \/ ReadSymbol
    \/ ReadRemainingLine
    \/ ReadKeyValuePairRaw

SpecReader == InitReader /\ [][NextReader]_vars

----------------------------------------------------------------------------
(* What the documentation says a text must parse to, read off the input as  *)
(* it was drawn                                                             *)

\* from_string has returned or aborted
Done == status \in {"Ok", "Err", "panic"}

\* the segments that are one top-level KEY = VALUE line (two physical lines
\* for a continued value)
KvSegs == {"kv", "kvLong", "continued", "endTime", "crlf", "pointer"}

IsKvSeg(id) == id \in KvSegs

SegKey(id) ==
    CASE id = "kv"        -> <<"A">>
      [] id = "kvLong"    -> <<"B">>
      [] id = "continued" -> <<"E">>
      [] id = "endTime"   -> <<"E","N","D","_","T","I","M","E">>
      [] id = "crlf"      -> <<"F">>
      [] id = "pointer"   -> IMAGE_POINTER

SegRaw(id) ==
    CASE id = "kv"        -> <<"1">>
      [] id = "kvLong"    -> Rep("x", LINE_CONTINUATION_PREFIX_LEN + 3)
      [] id = "continued" -> <<"a","b","c","d">>
      [] id = "endTime"   -> <<"5">>
      [] id = "crlf"      -> <<"6">>
      [] id = "pointer"   -> <<"(",DQ,"x",".","i","m","g",DQ,")">>

\* key name and raw value of each property, in order
PropView(props) ==
    [i \in 1..Len(props) |-> <<props[i].key.name, props[i].value.raw>>]

ExpectedView(in) ==
    LET kv == SelectSeq(in.segs, IsKvSeg)
    IN  [i \in 1..Len(kv) |-> <<SegKey(kv[i]), SegRaw(kv[i])>>]

IsGroupSeg(id) == id = "group"

IMAGE_TEXT == <<"I","M","A","G","E">>

\* the Group the "group" segment describes
ImageGroup ==
    [name |-> IMAGE_TEXT,
     properties |-> <<[key |-> [kind |-> "Key", name |-> <<"C">>],
                       value |-> NewValue(<<"2">>)]>>]

ContinuedText == SegText("continued")

\* the cursor stands at the start of a value split across two lines
AtContinued ==
    /\ status = "running"
    /\ pos + Len(ContinuedText) <= Len(content)
    /\ Slice(content, pos, pos + Len(ContinuedText)) = ContinuedText
    /\ is_at_line_start(content, pos).val

\* the symbol of the line that starts at p: the text before `=`, trimmed
LineSymbol(c, p) == Trim(Slice(c, p, FirstIn(c, p, {NL, "="})))

\* the line that starts at p is a KEY = VALUE line
LineHasEquals(c, p) ==
    LET q == FirstIn(c, p, {NL, "="})
    IN  q < Len(c) /\ c[q + 1] = "="

\* what the caller of from_string sees of a finished parse
Outcome(st) ==
    <<st.status,
      IF st.status = "Err" THEN st.errKind ELSE "none",
      IF st.status = "Ok" THEN <<st.properties, st.groups, st.objects>> ELSE <<>>>>

----------------------------------------------------------------------------
(* Claims about Pvl::from_string (specification Spec) *)

\* C1: Pvl::from_string never aborts: whatever the text, it returns a
\* Document or a typed Error, and no step of it ends in a panic.
C1_NeverAborts == status # "panic"

\* C2: every iteration of the top-level loop of Pvl::from_string either moves
\* the cursor forward or ends the parse, so the parse terminates.
C2_EveryIterationAdvances ==
    (iters > 0 /\ status = "running") => pos > prevPos

\* C3: when Pvl::from_string returns a Document, its top-level properties are
\* exactly the top-level KEY = VALUE lines of the text, one per line and in
\* text order, the last line included.
C3_NoLineDropped ==
    status = "Ok" => PropView(properties) = ExpectedView(input)

\* C4: a label with one GROUP = IMAGE ... END_GROUP block parses to a Document
\* with exactly one Group, named IMAGE, holding the lines between the markers
\* and no marker line, and none of the block's lines is a top-level property.
C4_GroupBlock ==
    (Len(SelectSeq(input.segs, IsGroupSeg)) = 1 /\ Done) =>
        /\ status = "Ok"
        /\ groups = <<ImageGroup>>
        /\ \A i \in 1..Len(properties) :
               properties[i].key.name \notin {<<"C">>, GROUP_TEXT, END_GROUP_TEXT}

\* C5: read_key_value_pair_raw reads a value split across two lines as one
\* KeyValuePair whose raw text is the two fragments joined with no separator,
\* and leaves the cursor at the start of the line after the continuation.
C5_ContinuationMerged ==
    AtContinued =>
        LET r == read_key_value_pair_raw(content, pos)
        IN  /\ r.err = "ok"
            /\ r.key.name = <<"E">>
            /\ r.value.raw = <<"a","b","c","d">>
            /\ r.pos = pos + Len(ContinuedText)

\* C6: the top-level parse is ended by a line only when that line's symbol is
\* exactly END; a key that merely begins with END does not end it.
C6_EndIsExact ==
    (exit = "is_at_end" /\ LineHasEquals(content, pos)) =>
        LineSymbol(content, pos) = END_TEXT

\* C7: the outcome of Pvl::from_string does not depend on what follows the END
\* line: parsing L followed by T gives the same outcome as parsing L alone.
C7_TrailerIndependent ==
    (input.end = "END" /\ input.trail \in {"none", "nl", "pad"} /\ Done) =>
        Outcome(Cur) = Outcome(from_string(LabelText(input)))

----------------------------------------------------------------------------
(* Claims about Value::new (specification SpecValue) *)

RuleOrder == <<"Bool", "String", "Array", "Float", "BitMask", "Integer", "Flag",
               "Undetermined">>

\* whether the i-th rule of the documented order matches s
RuleMatches(i, s, quotes) ==
    CASE i = 1 -> BoolRegex(s, quotes)
      [] i = 2 -> WrappedRegex(s, quotes, quotes)
      [] i = 3 -> WrappedRegex(s, {"("}, {")"})
      [] i = 4 -> FLOAT_DETERMINATE(s)
      [] i = 5 -> BITMASK_DETERMINATE(s)
      [] i = 6 -> INTEGER_DETERMINATE(s)
      [] i = 7 -> FLAG_DETERMINATE(s)
      [] OTHER -> TRUE

FirstMatch(s, quotes) ==
    RuleOrder[Least({i \in 1..Len(RuleOrder) : RuleMatches(i, s, quotes)})]

BitMaskFrag == <<"2","#","1","0","1","1","#">>

QuotedTrueFrag == <<DQ,"T","R","U","E",DQ>>

BareFlagFrag == <<"F","O","O","1","2","3">>

ExampleType(s) ==
    CASE s = BitMaskFrag    -> "BitMask"
      [] s = QuotedTrueFrag -> "Bool"
      [] s = BareFlagFrag   -> "Flag"
      [] s = <<>>           -> "Undetermined"

\* C8: type inference is total and ordered: every fragment, the empty one
\* included, gets exactly one of the 8 types, the one of the first matching
\* rule in the order Bool, String, Array, Float, BitMask, Integer, Flag,
\* Undetermined; 2#1011# is BitMask, "TRUE" is Bool and FOO123 is Flag.
C8_FirstMatchingRule ==
    /\ vtPvl # "none" =>
           /\ vtPvl \in ValueTypes
           /\ vtPvl = FirstMatch(frag, PvlQuotes)
    /\ vtLib # "none" =>
           /\ vtLib \in ValueTypes
           /\ vtLib = FirstMatch(frag, LibQuotes)
    /\ frag \in {BitMaskFrag, QuotedTrueFrag, BareFlagFrag, <<>>} =>
           /\ vtPvl \in {"none", ExampleType(frag)}
           /\ vtLib \in {"none", ExampleType(frag)}

\* C8 (witness): both engines have typed the fragment 2#1011#, which the
\* Integer rule matches too, as BitMask.
C8_BitMaskTyped ==
    /\ frag = BitMaskFrag
    /\ INTEGER_DETERMINATE(frag)
    /\ vtPvl = "BitMask"
    /\ vtLib = "BitMask"

\* signs, then at least one digit, then anything but a letter
IntegerShape(s) ==
    LET a == Run(s, 0, {"+", "-"})
        d == Run(s, a, Digits)
    IN  /\ d >= 1
        /\ a + d < Len(s) => s[a + d + 1] \notin Letters

\* C9: a fragment is typed Integer only if its digits are not immediately
\* followed by a letter: 123abc and 5V are never typed Integer.
C9_IntegerNotGlued ==
    vtPvl = "Integer" => IntegerShape(frag)

\* C10: the two value-typing engines agree: Value::new of lib.rs and Value::new
\* of pvl.rs infer the same type for every fragment, whichever quotes it uses.
C10_EnginesAgree ==
    (vtPvl # "none" /\ vtLib # "none") => vtPvl = vtLib

\* the Value the recorded call was made on
CallValue == ValueOf(call.eng)

\* the type an accessor asks for
RequestedType(fn) == IF fn = "parse_string" THEN "String" ELSE MacroValueType(fn)

\* whether the raw text converts to the accessor's native type
TextParses(fn, s) == fn = "parse_string" \/ FromStr(fn, s).err = "ok"

\* C11: an accessor (parse_f32 ... parse_i64, parse_bool, parse_flag,
\* parse_string) returns InvalidType whenever the Value's type is determined
\* and differs from the type the accessor asks for; it returns
\* ValueTypeParseError only when the type is Undetermined or the asked one and
\* the raw text does not parse as the native type.
C11_AccessorErrors ==
    call.fn \in MacroAccessors \cup {"parse_string"} =>
        /\ CallValue.type \notin {"Undetermined", RequestedType(call.fn)}
              => call.res.err = "InvalidType"
        /\ call.res.err = "ValueTypeParseError"
              => /\ CallValue.type \in {"Undetermined", RequestedType(call.fn)}
                 /\ ~TextParses(call.fn, frag)

\* C11: parse_u8 was called on a Value typed Float and answered InvalidType
C11_WrongTypeRejected ==
    /\ call.fn = "parse_u8"
    /\ CallValue.type = "Float"
    /\ call.res.err = "InvalidType"


\* number of commas in a text
Commas(s) == Cardinality({i \in 1..Len(s) : s[i] = ","})

\* the raw texts of the values, joined by commas again
RECURSIVE JoinRaw(_)
JoinRaw(vs) ==
    IF vs = <<>> THEN <<>>
    ELSE IF Len(vs) = 1 THEN vs[1].raw
    ELSE vs[1].raw \o <<",">> \o JoinRaw(Tail(vs))

\* the type the engine of the recorded call infers for a text
TypeBy(eng, s) == IF eng = "pvl" THEN pvl_determine_type(s) ELSE lib_determine_type(s)

OneTwoThree == <<"(","1",",","2",",","3",")">>

\* C12: parse_array succeeds exactly when the Value's type is Array and
\* returns InvalidType otherwise; on success the elements are the pieces of the
\* text between the parentheses split on commas (one more than the commas),
\* each typed by the same inference rules; (1,2,3) gives the Integers 1, 2, 3.
C12_ArrayElements ==
    call.fn = "parse_array" =>
        /\ CallValue.type = "Array" => call.res.err = "ok"
        /\ CallValue.type # "Array" => call.res.err = "InvalidType"
        /\ call.res.err = "ok" =>
              /\ Len(call.res.val) = Commas(frag) + 1
              /\ JoinRaw(call.res.val) = SubSeq(frag, 2, Len(frag) - 1)
              /\ \A i \in 1..Len(call.res.val) :
                    /\ Commas(call.res.val[i].raw) = 0
                    /\ call.res.val[i].type = TypeBy(call.eng, call.res.val[i].raw)
        /\ frag = OneTwoThree =>
              call.res.val = << [raw |-> <<"1">>, type |-> "Integer"],
                                [raw |-> <<"2">>, type |-> "Integer"],
                                [raw |-> <<"3">>, type |-> "Integer"] >>

\* C12: parse_array was called on (1,2,3) and returned three elements
C12_ThreeIntegers ==
    /\ call.fn = "parse_array"
    /\ frag = OneTwoThree
    /\ call.res.err = "ok"
    /\ Len(call.res.val) = 3

\* C13: parse_string on a Value of type String returns the raw text without
\* its first and last character, and every character between them, quote
\* characters included, is kept in place.
C13_OnlyOuterQuotesRemoved ==
    (call.fn = "parse_string" /\ CallValue.type = "String") =>
        /\ call.res.err = "ok"
        /\ call.res.val = SubSeq(frag, 2, Len(frag) - 1)

\* the same letters, whatever their case
SameIgnoringCase(a, b) ==
    /\ Len(a) = Len(b)
    /\ \A i \in 1..Len(a) :
          \/ a[i] = b[i]
          \/ a[i] \in Lower /\ b[i] \in Upper
                /\ LetterIndex(a[i], LowerSeq) = LetterIndex(b[i], UpperSeq)
          \/ a[i] \in Upper /\ b[i] \in Lower
                /\ LetterIndex(a[i], UpperSeq) = LetterIndex(b[i], LowerSeq)

TokensOf(enum) ==
    CASE enum = "PixelFormat" -> PixelFormatTokens
      [] enum = "DataType" -> DataTypeTokens
      [] enum = "DataOrganization" -> DataOrganizationTokens

\* what the enumeration's from_string gives for the token as it is listed
FromToken(enum, t) ==
    CASE enum = "PixelFormat" -> PixelFormat_from_string(t)
      [] enum = "DataType" -> DataType_from_string(t)
      [] enum = "DataOrganization" -> DataOrganization_from_string(t)

WORD_TEXT == <<"W","O","R","D">>

LONG_TEXT == <<"L","O","N","G">>

HALF_TEXT == <<"H","A","L","F">>

FULL_TEXT == <<"F","U","L","L">>

\* C17: from_string of PixelFormat, DataType and DataOrganization accepts a
\* token in any letter case and returns UnexpectedEnum for every other text;
\* WORD gives what HALF gives and LONG what FULL gives.
C17_EnumTokens ==
    call.fn = "from_string" =>
        /\ \A t \in TokensOf(call.enum) :
              SameIgnoringCase(frag, t)
                 => /\ call.res.err = "ok"
                    /\ call.res = FromToken(call.enum, t)
        /\ ~(\E t \in TokensOf(call.enum) : SameIgnoringCase(frag, t))
              => call.res.err = "UnexpectedEnum"
        /\ (call.enum = "PixelFormat" /\ SameIgnoringCase(frag, WORD_TEXT))
              => call.res = PixelFormat_from_string(HALF_TEXT) /\ call.res.val = "Half"
        /\ (call.enum = "PixelFormat" /\ SameIgnoringCase(frag, LONG_TEXT))
              => call.res = PixelFormat_from_string(FULL_TEXT) /\ call.res.val = "Full"

\* C17: PixelFormat::from_string was called on word in lower case and gave Half
C17_LowerCaseAlias ==
    /\ call.fn = "from_string"
    /\ call.enum = "PixelFormat"
    /\ frag = <<"w","o","r","d">>
    /\ call.res = EnumOk("Half")

\* whether the text p occurs in s
Occurs(p, s) == \E i \in 0..(Len(s) - Len(p)) : SubSeq(s, i + 1, i + Len(p)) = p

\* 0-based index of the first occurrence of p in s
FirstOccurrence(p, s) ==
    Least({i \in 0..(Len(s) - Len(p)) : SubSeq(s, i + 1, i + Len(p)) = p})

\* the reader's (lines, samples, bands)
Geometry == <<vr.lines, vr.samples, vr.bands>>

\* get_pixel_value was called on pixel (line, sample, band)
PixelCall(line, sample, band) ==
    /\ call.fn = "get_pixel_value"
    /\ call.line = line
    /\ call.sample = sample
    /\ call.band = band

\* C14: for the file whose label is LBLSIZE=100 RECSIZE=100 DIM=3 N1=4 N2=4
\* N3=1 NLB=0 NBB=0 TYPE=IMAGE FORMAT=BYTE ORG=BSQ padded to 100 bytes and
\* followed by 16 sample bytes, VicarReader::new succeeds with lines=4,
\* samples=4, bands=1, get_pixel_value(0,0,0) returns the first sample byte and
\* get_pixel_value(3,3,0) the 16th.
C14_MinimalFileReads ==
    (input = MinimalFile /\ vrStatus # "none") =>
        /\ vrStatus = "ok"
        /\ Geometry = <<4, 4, 1>>
        /\ PixelCall(0, 0, 0) => call.res.err = "ok" /\ call.res.val = <<strings[101]>>
        /\ PixelCall(3, 3, 0) => call.res.err = "ok" /\ call.res.val = <<strings[116]>>

\* C15: VicarReader::new builds no reader and fails with PropertyNotFound
\* whenever one of the eleven required tokens does not occur in the file text.
C15_MissingTokenNotFound ==
    (vrStatus # "none" /\ \E k \in KeySet : ~Occurs(k \o <<"=">>, strings)) =>
        /\ vrStatus = "PropertyNotFound"
        /\ vr = NoReader

\* C18: a reader built by VicarReader::new has (lines, samples, bands) =
\* (N2, N1, N3) for the organization Bsq, (N3, N1, N2) for Bil and (N3, N2, N1)
\* for Bip; N1=5, N2=10, N3=3 with Bil gives (3, 5, 10).
C18_DimensionOrder ==
    vr.built =>
        /\ vr.org = "Bsq" => Geometry = <<input.n2, input.n1, input.n3>>
        /\ vr.org = "Bil" => Geometry = <<input.n3, input.n1, input.n2>>
        /\ vr.org = "Bip" => Geometry = <<input.n3, input.n2, input.n1>>
        /\ vr.org \in {"Bsq", "Bil", "Bip"}
        /\ (input.n1 = 5 /\ input.n2 = 10 /\ input.n3 = 3 /\ input.org = BIL_TOKEN)
              => Geometry = <<3, 5, 10>>

\* C18: a reader was built from a Bil file with N1=5, N2=10, N3=3
C18_BilExample ==
    /\ vr.built
    /\ vr.org = "Bil"
    /\ <<input.n1, input.n2, input.n3>> = <<5, 10, 3>>
    /\ Geometry = <<3, 5, 10>>

\* C19: for every reader built by VicarReader::new the start of the pixel
\* region is (index of the first LBLSIZE= in the file text) + LBLSIZE
\* + NLB * RECSIZE + NBB, and that index is what scan_for_property("LBLSIZE")
\* reports afterwards.
C19_DataStart ==
    vr.built =>
        /\ vr.data_start = FirstOccurrence(LBLSIZE_KEY \o <<"=">>, strings)
                              + input.lblsize + input.nlb * input.recsize + input.nbb
        /\ (call.fn = "scan_for_property" /\ call.key = LBLSIZE_KEY)
              => call.res = [err |-> "ok",
                             idx |-> FirstOccurrence(LBLSIZE_KEY \o <<"=">>, strings)]

\* C19: the label starts after three other bytes, the file has a binary header
\* and record prefixes, and scan_for_property("LBLSIZE") reported index 3
C19_LabelNotAtZero ==
    /\ vr.built
    /\ input.nlb = 1
    /\ input.nbb = 2
    /\ call.fn = "scan_for_property"
    /\ call.key = LBLSIZE_KEY
    /\ call.res.idx = 3
    /\ vr.data_start = 3 + input.lblsize + input.recsize + 2

\* C20: get_pixel_value(line, sample, band) reads at the absolute byte offset
\* data_start + lines*samples*bytesPerSample*band + line*NBB
\* + line*samples*bytesPerSample + sample*bytesPerSample, whatever the
\* organization; the formats with a reader give the bytes found there.
C20_PixelOffset ==
    call.fn = "get_pixel_value" =>
        /\ call.res.start =
              vr.data_start
                 + vr.lines * vr.samples * bytes_per_sample(vr.format) * call.band
                 + call.line * input.nbb
                 + call.line * vr.samples * bytes_per_sample(vr.format)
                 + call.sample * bytes_per_sample(vr.format)
        /\ vr.format # "Comp" => call.res.err = "ok"
        /\ call.res.err = "ok"
              => /\ call.res.val # <<>>
                 /\ call.res.val =
                       SubSeq(strings, call.res.start + 1, call.res.start + Len(call.res.val))

\* C20: a pixel of the second line and second band was read from a file with
\* two bytes before each record
C20_PrefixedRecordRead ==
    /\ PixelCall(1, 1, 1)
    /\ input.nbb = 2
    /\ call.res.err = "ok"

\* the dimension the documentation expects of the detached path: the field's
\* value, 0 when the IMAGE object has no such field or its value does not parse
\* as an unsigned integer
LenientDimension(obj, key) ==
    IF NameMatches(obj.properties, key) = {} THEN 0
    ELSE UsizeOrZero(impl_parse_pvl_fn("parse_usize",
             obj.properties[Least(NameMatches(obj.properties, key))].value))

\* new_from_detached_label was called on a Document with an IMAGE object and a
\* readable ^IMAGE pointer, and the image file is there
DetachedCallOnImage ==
    /\ call.fn = "new_from_detached_label"
    /\ call.image = "present"
    /\ status = "Ok"
    /\ Pvl_get_object(objects, IMAGE_TOKEN).err = "ok"
    /\ FileNameOf(properties).err = "ok"

\* C16: on the detached-label path, when the IMAGE object lacks LINES,
\* LINE_SAMPLES or BANDS, or the value does not parse as an unsigned integer,
\* new_from_detached_label does not fail on that field: it uses 0 for that
\* dimension and builds the reader.
C16_DimensionsDefaultToZero ==
    DetachedCallOnImage =>
        /\ vrStatus = "ok"
        /\ vr.lines = LenientDimension(Pvl_get_object(objects, IMAGE_TOKEN).val, LINES_KEY)
        /\ vr.samples =
              LenientDimension(Pvl_get_object(objects, IMAGE_TOKEN).val, LINE_SAMPLES_KEY)
        /\ vr.bands = LenientDimension(Pvl_get_object(objects, IMAGE_TOKEN).val, BANDS_KEY)

----------------------------------------------------------------------------
(* Claims about the boolean accessor (specification SpecValue) *)

\* C29: for every Value whose inferred type is Bool (raw text TRUE or FALSE
\* in quotes), parse_bool succeeds and returns true for TRUE and false for
\* FALSE.
C29_BoolValuesParse ==
    (call.fn = "parse_bool" /\ CallValue.type = "Bool") =>
        /\ call.res.err = "ok"
        /\ call.res.val = (Slice(frag, 1, Len(frag) - 1) = TRUE_TEXT)

----------------------------------------------------------------------------
(* Claims about the bytes a pixel read takes (specification SpecVicar) *)

\* the in-range coordinates of a reader
Coordinates(r) == (0..(r.lines - 1)) \X (0..(r.samples - 1)) \X (0..(r.bands - 1))

\* the bytes of the pixel region get_pixel_value decodes for a coordinate
BytesRead(r, xyz) ==
    LET i == get_pixel_index(r, xyz[1], xyz[2], xyz[3])
    IN  i..(i + ReadWidth(r.format) - 1)

\* C28: for every reader built by VicarReader::new, with any pixel format
\* other than Comp/Complex and any NBB, two distinct in-range coordinates
\* never read overlapping bytes.
C28_PixelsDisjoint ==
    (vr.built /\ vr.format \notin {"Comp", "Complex"}) =>
        \A a \in Coordinates(vr), b \in Coordinates(vr) :
            a # b => BytesRead(vr, a) \cap BytesRead(vr, b) = {}

----------------------------------------------------------------------------
(* Claims about the label scan (specification SpecVicar) *)

\* C30: scan_for_property(key) returns the least index at which the text
\* contains the key immediately followed by =, and Eof exactly when the text
\* contains no such occurrence, also when the only occurrence is at the very
\* end of the text; has_property(key) is true exactly when such an occurrence
\* exists.
C30_ScanFindsFirst ==
    /\ call.fn = "scan_for_property" =>
          IF Occurs(call.key \o <<"=">>, strings)
          THEN /\ call.res.err = "ok"
               /\ call.res.idx = FirstOccurrence(call.key \o <<"=">>, strings)
          ELSE call.res.err = "Eof"
    /\ call.fn = "has_property" =>
          /\ call.res.err = "ok"
          /\ call.res.val = Occurs(call.key \o <<"=">>, strings)

----------------------------------------------------------------------------
(* Claims about the cursor operations (specification SpecReader) *)

\* the first line of a text, without its line feed
FirstLine(c) == Slice(c, 0, FirstIn(c, 0, {NL}))

\* everything after the first = of a line, trimmed
RawAfterEquals(line) == Trim(Slice(line, FirstIn(line, 0, {"="}) + 1, Len(line)))

\* C21: the raw value of a KEY = VALUE line is everything after the first =
\* up to the end of the line, trimmed: no character after the = is skipped,
\* whether or not a space follows the =, and = characters inside VALUE are
\* kept.
C21_RawValueComplete ==
    (call.fn = "read_key_value_pair_raw" /\ prevPos = 0 /\ input \in KvTextIds) =>
        /\ call.res.err = "ok"
        /\ call.res.value.raw = RawAfterEquals(FirstLine(content))

\* the cursor p is inside the text and the character before it ends no line
NotAtLineStart(c, p) == p > 0 /\ p <= Len(c) /\ c[p] \notin {NL, CR}

\* the cursor p is at the start of a line that begins with the 37-space prefix
AtPrefixedLine(c, p) ==
    /\ p = 0 \/ (p <= Len(c) /\ c[p] \in {NL, CR})
    /\ StartsWith(SubSeq(c, p + 1, Len(c)), LINE_CONTINUATION_PREFIX)

\* C23: read_key_value_pair_raw returns a Programming error whenever the
\* cursor is not at a line start and a Syntax error whenever it is at a line
\* that starts with the 37-space continuation prefix, and in both cases leaves
\* the cursor where it was.
C23_MisplacedCallRejected ==
    call.fn = "read_key_value_pair_raw" =>
        /\ NotAtLineStart(content, prevPos) =>
              call.res.err = "Programming" /\ pos = prevPos
        /\ AtPrefixedLine(content, prevPos) =>
              call.res.err = "Syntax" /\ pos = prevPos

CursorOps ==
    {"next_char", "jump", "jump_to_next_line", "skip_multiline_comment", "read_symbol",
     "read_remaining_line", "read_key_value_pair_raw"}

\* C24: after any cursor operation 0 <= pos <= len; an operation that reports
\* Eof does not leave the cursor beyond the end of the text, so
\* is_at_line_start can still be evaluated.
C24_CursorInText ==
    status = "reader" =>
        /\ 0 <= pos /\ pos <= Len(content)
        /\ (call.fn \in CursorOps /\ call.res.err = "Eof") =>
              is_at_line_start(content, pos).err = "ok"

----------------------------------------------------------------------------
(* Claims about the lines inside a block (specification Spec) *)

\* the label is the one segment seg, an END line and 40 more bytes, so that no
\* line of the block lies within 37 bytes of the end of the text
BlockAlone(seg) == input = [segs |-> <<seg>>, end |-> "END", trail |-> "pad"]

\* C22: inside a GROUP or OBJECT block a line that is empty or holds only
\* spaces, between the declaration line and the END_GROUP / END_OBJECT line,
\* adds no property, raises no error and leaves the block's name and its
\* other properties as they are without that line.
C22_BlankLineInBlockSkipped ==
    ((BlockAlone("groupBlank") \/ BlockAlone("groupSpaces")) /\ Done) =>
        /\ status = "Ok"
        /\ groups = <<ImageGroup>>
        /\ properties = <<>>

\* C26: a /* ... */ comment line between a GROUP/OBJECT declaration line and
\* its END_GROUP/END_OBJECT line is skipped like a top-level comment, so the
\* block's properties are the same as without the comment line.
C26_CommentInBlockSkipped ==
    (BlockAlone("groupComment") /\ Done) =>
        /\ status = "Ok"
        /\ groups = <<ImageGroup>>
        /\ properties = <<>>

\* the kinds of the keys a sequence of properties stores
KeyKinds(props) == {props[i].key.kind : i \in 1..Len(props)}

\* the kinds of all keys a Document stores
StoredKinds ==
    KeyKinds(properties)
        \cup UNION {KeyKinds(groups[i].properties) : i \in 1..Len(groups)}
        \cup UNION {KeyKinds(objects[i].properties) : i \in 1..Len(objects)}

\* C25: every KeyValuePair stored in a returned Document has a key that is Key
\* or Pointer, also when a block is nested inside another block, and the
\* properties of an outer block that follow a nested block stay in the outer
\* block.
C25_OnlyKeysStored ==
    status = "Ok" =>
        /\ StoredKinds \subseteq {"Key", "Pointer"}
        /\ BlockAlone("nested") =>
              /\ Len(objects) = 1
              /\ \E i \in 1..Len(objects[1].properties) :
                    objects[1].properties[i].key.name = <<"D">>
              /\ properties = <<>>

----------------------------------------------------------------------------
(* Claims about the lookups of Group and Object (specification Spec) *)

\* the properties of the block the recorded lookup was made on
CallProperties == Blocks(call.block)[call.at].properties

\* whether the i-th of props is stored under the name, as a Key or a Pointer
StoredUnder(props, i, name) ==
    props[i].key.kind \in {"Key", "Pointer"} /\ props[i].key.name = name

\* C27: for Group and Object, get_property(name) and has_property(name)
\* agree for every name: get_property returns the first property, in insertion
\* order, whose Key or Pointer name equals the query exactly when has_property
\* is true, and returns None, without failing, when has_property is false.
C27_LookupsAgree ==
    /\ call.fn = "has_property" =>
          call.res = \E i \in 1..Len(CallProperties) :
                         StoredUnder(CallProperties, i, call.name)
    /\ call.fn = "get_property" =>
          IF grouping_has_property(CallProperties, call.name)
          THEN /\ call.res.err = "ok"
               /\ \E i \in 1..Len(CallProperties) :
                     /\ StoredUnder(CallProperties, i, call.name)
                     /\ \A j \in 1..(i - 1) : ~StoredUnder(CallProperties, j, call.name)
                     /\ call.res.val = CallProperties[i]
          ELSE call.res.err = "None"

====
